---- MODULE Spec2Model ----
(***************************************************************************)
(* A model of the esoteric virtual machine: the Machine struct, its        *)
(* instruction codec (load_instruction / fetch_instruction), its           *)
(* execute_instruction state transition, the run loop, and the bounded     *)
(* Stack and ConstantSizeString it is built on.                            *)
(*                                                                         *)
(* Conventions.  A Rust struct is a record.  A Vec<u8> is a record         *)
(* [vec, capacity].  The memory array is kept sparsely: a function from    *)
(* the addresses holding a non-zero byte to that byte, every other cell    *)
(* of 0 .. MemLen-1 holding 0.  A panic is a result with fault # "none".   *)
(* Integers of the program keep their width: u8, u16, i16, u64 arithmetic  *)
(* is written out with its modulus.  Non-ASCII names are transliterated:   *)
(* r-hacek as "rh", sharp s as "ss", capital omega as "Omega".             *)
(***************************************************************************)
EXTENDS Integers, Sequences, FiniteSets, TLC

VARIABLES machine, pre, pc, instruction, io, emitted, fault, call, steps

vars == <<machine, pre, pc, instruction, io, emitted, fault, call, steps>>

-----------------------------------------------------------------------------
(* Widths and sizes of the program.                                        *)

\* the length of Machine::memory, [u8; 0xFFFF]
MemLen == 65535
\* the number of values of a u16 (reg_ep, reg_dp, reg_L, every address operand)
U16Range == 65536
\* the number of values of a u8
U8Range == 256
\* the capacity Stack::default() asks for
StackCapacity == 4095
\* the capacity Machine::default() asks for reg_ss
StringCapacity == 255
\* the length of reg_rh, [i8; 37]
RhLen == 37
\* the byte b'.'
Dot == 46

Min(a, b) == IF a < b THEN a ELSE b
Max(a, b) == IF a > b THEN a ELSE b

-----------------------------------------------------------------------------
(* utils/non_invalidatable.rs: same-width bit reinterpretation.            *)

u8_to_i8(b) == IF b >= 128 THEN b - 256 ELSE b
i8_to_u8(v) == IF v < 0 THEN v + 256 ELSE v
u16_to_i16(w) == IF w >= 32768 THEN w - 65536 ELSE w
i16_to_u16(v) == IF v < 0 THEN v + 65536 ELSE v

\* i32::to_be_bytes(v): the four bytes of the two's complement of v
i32_to_be_bytes(v) ==
    LET low == v % 16777216
    IN  <<i8_to_u8(v \div 16777216)>> \o
        <<low \div 65536, (low \div 256) % 256, low % 256>>

\* safe_transmute::<u32, i32>(u32::from_be_bytes(bytes))
i32_from_be_bytes(bytes) ==
    u8_to_i8(bytes[1]) * 16777216 + bytes[2] * 65536 + bytes[3] * 256 + bytes[4]

\* the bytes of an unsigned integer with the least significant first
RECURSIVE to_le_bytes(_, _)
to_le_bytes(n, width) ==
    IF width = 0 THEN <<>>
    ELSE <<n % 256>> \o to_le_bytes(n \div 256, width - 1)

\* n.to_be_bytes() of an unsigned integer of `width` bytes
RECURSIVE to_be_bytes(_, _)
to_be_bytes(n, width) ==
    IF width = 0 THEN <<>>
    ELSE Append(to_be_bytes(n \div 256, width - 1), n % 256)

\* uN::from_be_bytes(bytes)
RECURSIVE from_be_bytes(_)
from_be_bytes(bytes) ==
    IF bytes = <<>> THEN 0
    ELSE from_be_bytes(SubSeq(bytes, 1, Len(bytes) - 1)) * 256 + bytes[Len(bytes)]

-----------------------------------------------------------------------------
(* The memory array.                                                       *)

EmptyMemory == [a \in {} |-> 0]

InBounds(a) == a >= 0 /\ a < MemLen

\* memory[a] for an index in bounds
mem_get(memory, a) == IF a \in DOMAIN memory THEN memory[a] ELSE 0

\* memory[a] = v for an index in bounds
mem_set(memory, a, v) ==
    IF v = 0
    THEN [x \in DOMAIN memory \ {a} |-> memory[x]]
    ELSE (a :> v) @@ memory

-----------------------------------------------------------------------------
(* machine/omega.rs                                                        *)

\* The value of illusion_of_choice, Option<Option<Option<Option<()>>>>, is
\* written as its number of Some wrappers: 0 is None, 4 is
\* Some(Some(Some(Some(())))).  Its one-byte representation, which transmute
\* exposes, is the niche layout: the innermost Option<()> is 0 / 1 and every
\* outer None takes the next free byte value.
ChoiceValues == 0 .. 4

choice_to_u8(d) ==
    CASE d = 0 -> 4
      [] d = 1 -> 3
      [] d = 2 -> 2
      [] d = 3 -> 0
      [] d = 4 -> 1
      [] OTHER -> d - 100

ValidChoiceByte(b) == b \in 0 .. 4

\* transmute(byte) of a byte that is the representation of a value; a byte
\* that is no representation is undefined behaviour: `ub` picks what the
\* build makes of it, one of the five values or the bits kept as they are
\* (written 100 + byte)
u8_to_choice(b, ub) ==
    CASE b = 4 -> 0
      [] b = 3 -> 1
      [] b = 2 -> 2
      [] b = 0 -> 3
      [] b = 1 -> 4
      [] OTHER -> IF ub \in ChoiceValues THEN ub ELSE 100 + b

UBChoices == 0 .. 5

ZEROED ==
    [illusion_of_choice |-> 0,
     polymorphic_desires |-> <<0, 0, 0, 0, 0, 0, 0, 0>>,
     feeling_of_impending_doom |-> FALSE,
     is_sentient |-> FALSE,
     should_make_infinite_paperclips |-> FALSE]

-----------------------------------------------------------------------------
(* instruction.rs: Instruction and InstructionKind.                        *)

\* the variants of Instruction in declaration order: the discriminant of the
\* k-th (from 1) is k - 1
Kinds ==
    <<"Nop", "Ldar", "Sba",
      "Clrh", "Dumprh", "Movarh", "Setrh", "Setirh", "Ldrh", "Ldirh",
      "Clss", "Dumpss", "Writess", "Movass", "Setss", "Setiss", "Ldss",
      "Pushss", "Popss", "Lenssa",
      "Ldidp",
      "OmegaChoiceSet", "OmegaChoiceGetA",
      "OmegaGainAPolymorphicDesires", "OmegaLoseAPolymorphicDesires",
      "OmegaPushPolymorphicDesires",
      "OmegaTheEndIsNear", "OmegaSkipToTheChase",
      "OmegaSetSentience", "OmegaSetPaperclipProduction",
      "AddBL", "SubBL", "MulBL", "DivBL", "ModBL",
      "NotL", "AndBL", "OrBL", "XorBL",
      "CmpLB",
      "TgFlag", "ClFlag",
      "AddF", "SubF", "MulF", "DivF", "ModF",
      "StackAlloc", "StackDealloc",
      "Push", "Pushi", "Pop",
      "Popa", "Pusha", "Popb", "Pushb", "PopL", "PushL", "Popf", "Pushf",
      "Popch", "Pushch", "Popnum", "Pushnum",
      "Popep", "Zpopep", "Ppopep", "Npopep", "Fpopep", "Zapopep", "Dpopep",
      "GetChar", "GetLine",
      "WriteChar", "WriteLiness", "WriteLine",
      "ToggleDebug", "DebugMachineState", "DebugMachineStateCompact",
      "DebugMemoryRegion", "DebugStackRegion", "ShowChoice">>

KindSet == {Kinds[k] : k \in 1 .. Len(Kinds)}

\* `IK::X as u8`
Opcode(kind) == (CHOOSE k \in 1 .. Len(Kinds) : Kinds[k] = kind) - 1

\* InstructionKind::from_repr(byte): None for a byte that is no discriminant
from_repr(byte) == IF byte < Len(Kinds) THEN Kinds[byte + 1] ELSE "None"

\* An Instruction value: its variant and its operands in order.  A u8, u16
\* or i8 operand is its number, a bool operand is 0 / 1, the choice operand
\* is a ChoiceValues number, the [i8; 37] operand is its 37 numbers.
Ins(kind, ops) == [kind |-> kind, ops |-> ops]

\* Option::<Instruction>::None
None == [kind |-> "None", ops |-> <<>>]

-----------------------------------------------------------------------------
(* machine/mod.rs: fetch_byte .. fetch_8_bytes.  Each returns the value    *)
(* read, the new reg_ep and whether every index was in bounds (an index    *)
(* out of bounds panics).                                                  *)

fetch_byte(memory, ep) ==
    IF InBounds(ep)
    THEN [ok |-> TRUE, val |-> mem_get(memory, ep), ep |-> (ep + 1) % U16Range]
    ELSE [ok |-> FALSE, val |-> 0, ep |-> ep]

\* the shared shape of fetch_2_bytes, fetch_4_bytes and fetch_8_bytes:
\* reg_ep is advanced (wrapping, as u16) first, then byte k is read at
\* reg_ep_usize.wrapping_add(k), an addition of usize that does not wrap at
\* 2^16
fetch_n_bytes(memory, ep, n) ==
    IF \A k \in 0 .. n - 1 : InBounds(ep + k)
    THEN [ok |-> TRUE,
          val |-> from_be_bytes([k \in 1 .. n |-> mem_get(memory, ep + k - 1)]),
          ep |-> (ep + n) % U16Range]
    ELSE [ok |-> FALSE, val |-> 0, ep |-> (ep + n) % U16Range]

fetch_2_bytes(memory, ep) == fetch_n_bytes(memory, ep, 2)
fetch_4_bytes(memory, ep) == fetch_n_bytes(memory, ep, 4)
fetch_8_bytes(memory, ep) == fetch_n_bytes(memory, ep, 8)

-----------------------------------------------------------------------------
(* machine/mod.rs: fetch_instruction.                                      *)

\* the operand fetches of each arm of the match in fetch_instruction, in the
\* order the arm makes them: "u8" is fetch_byte, "u16" is fetch_2_bytes,
\* "i8" is safe_transmute::<u8, i8>(fetch_byte), "bool" is fetch_byte != 0,
\* "choice" is transmute(fetch_byte)
FetchLayout(kind) ==
    CASE kind \in {"Ldar", "Dumprh", "Ldrh", "Dumpss", "Ldss", "Ldidp",
                   "AddF", "SubF", "MulF", "DivF", "ModF",
                   "StackAlloc", "StackDealloc", "Push", "Pop",
                   "WriteLine"} -> <<"u16">>
      [] kind \in {"Movarh", "Movass", "Pushi"} -> <<"u8">>
      [] kind = "Setrh" -> <<"u8", "u16">>
      [] kind = "Setirh" -> <<"u8", "i8">>
      [] kind = "Ldirh" -> [k \in 1 .. RhLen |-> "i8"]
      [] kind \in {"Writess", "Setss"} -> <<"u16", "u8">>
      [] kind = "Setiss" -> <<"u8", "u8">>
      [] kind = "OmegaChoiceSet" -> <<"choice">>
      [] kind \in {"OmegaSetSentience", "OmegaSetPaperclipProduction"} -> <<"bool">>
      [] kind \in {"DebugMemoryRegion", "DebugStackRegion"} -> <<"u16", "u16">>
      [] OTHER -> <<>>

\* one operand fetch
fetch_operand(memory, ep, type, ub) ==
    CASE type = "u16" -> fetch_2_bytes(memory, ep)
      [] type = "u8" -> fetch_byte(memory, ep)
      [] type = "i8" ->
            LET r == fetch_byte(memory, ep)
            IN  [r EXCEPT !.val = u8_to_i8(r.val)]
      [] type = "bool" ->
            LET r == fetch_byte(memory, ep)
            IN  [r EXCEPT !.val = IF r.val # 0 THEN 1 ELSE 0]
      [] type = "choice" ->
            LET r == fetch_byte(memory, ep)
            IN  [r EXCEPT !.val = u8_to_choice(r.val, ub)]

\* the operand fetches of one arm, left to right (the first half of them and
\* then the second); the first that panics ends the fetch
RECURSIVE fetch_operands(_, _, _, _)
fetch_operands(memory, ep, layout, ub) ==
    IF layout = <<>> THEN [ok |-> TRUE, vals |-> <<>>, ep |-> ep]
    ELSE IF Len(layout) = 1
    THEN LET r == fetch_operand(memory, ep, layout[1], ub)
         IN  [ok |-> r.ok, vals |-> IF r.ok THEN <<r.val>> ELSE <<>>, ep |-> r.ep]
    ELSE LET h == Len(layout) \div 2
             a == fetch_operands(memory, ep, SubSeq(layout, 1, h), ub)
             b == fetch_operands(memory, a.ep, SubSeq(layout, h + 1, Len(layout)), ub)
         IN  IF ~a.ok THEN a
             ELSE [ok |-> b.ok, vals |-> a.vals \o b.vals, ep |-> b.ep]

\* fetch_instruction_kind: fetch_byte, then InstructionKind::from_repr
fetch_instruction_kind(memory, ep) ==
    LET r == fetch_byte(memory, ep)
    IN  [ok |-> r.ok, kind |-> from_repr(r.val), ep |-> r.ep]

\* fetch_instruction past its `if self.halted`: the `?` on the opcode byte
\* and the match that fetches the operands of the kind
fetch_match(m, ub) ==
    LET k == fetch_instruction_kind(m.memory, m.reg_ep)
    IN  IF ~k.ok
        THEN [machine |-> [m EXCEPT !.reg_ep = k.ep], ret |-> None,
              fault |-> "index_out_of_bounds"]
        ELSE IF k.kind = "None"
        THEN [machine |-> [m EXCEPT !.reg_ep = k.ep], ret |-> None,
              fault |-> "none"]
        ELSE LET r == fetch_operands(m.memory, k.ep, FetchLayout(k.kind), ub)
             IN  IF r.ok
                 THEN [machine |-> [m EXCEPT !.reg_ep = r.ep],
                       ret |-> Ins(k.kind, r.vals), fault |-> "none"]
                 ELSE [machine |-> [m EXCEPT !.reg_ep = r.ep], ret |-> None,
                       fault |-> "index_out_of_bounds"]

\* a fetch_instruction that does not look at halted
fetch_instruction_without_halted_check(m, ub) == fetch_match(m, ub)

\* fetch_instruction on machine m.  The result is the machine after the
\* call, the value returned and the panic, if any ("none" otherwise).
fetch_instruction(m, ub) ==
    IF m.halted THEN [machine |-> m, ret |-> None, fault |-> "none"]
    ELSE fetch_match(m, ub)

-----------------------------------------------------------------------------
(* machine/mod.rs: load_instruction, load_bytes, load.                     *)

\* the inner fn load_byte of load_instruction: memory[*index] = value, then
\* *index = index.wrapping_add(1); the write panics on an index out of bounds
load_byte(w, value) ==
    IF ~w.ok THEN w
    ELSE IF InBounds(w.offset)
    THEN [ok |-> TRUE, memory |-> mem_set(w.memory, w.offset, value),
          offset |-> (w.offset + 1) % U16Range]
    ELSE [w EXCEPT !.ok = FALSE]

\* the inner fn load_bytes of load_instruction: byte i goes to
\* offset.wrapping_add(i as u16), then the offset advances by the length
load_bytes_at(w, bytes, i) ==
    IF ~w.ok THEN w
    ELSE LET idx(k) == (w.offset + (k - 1)) % U16Range
             bad == {k \in i .. Len(bytes) : ~InBounds(idx(k))}
             stop == IF bad = {} THEN Len(bytes) + 1
                     ELSE CHOOSE k \in bad : \A j \in bad : k <= j
             addrs == {idx(k) : k \in i .. stop - 1}
             val(a) == IF a \in addrs THEN bytes[((a - w.offset) % U16Range) + 1]
                       ELSE w.memory[a]
             dom == {a \in DOMAIN w.memory \cup addrs : val(a) # 0}
         IN  [ok |-> bad = {},
              memory |-> [a \in dom |-> val(a)],
              offset |-> IF bad = {} THEN (w.offset + Len(bytes)) % U16Range
                         ELSE w.offset]

load_bytes_inner(w, bytes) == load_bytes_at(w, bytes, 1)

\* the operand writes of each arm of the match in load_instruction, in the
\* order the arm makes them: "u16" is load_bytes of to_be_bytes, "u8" is
\* load_byte (Pushi: load_bytes of the one byte of u8::to_be_bytes), "i8" is
\* load_byte of safe_transmute, "bool" is load_byte of u8::from, "choice" is
\* load_byte of transmute, "i8s" is load_bytes of the array viewed as bytes
LoadLayout(kind) ==
    CASE kind \in {"Ldar", "Dumprh", "Ldrh", "Dumpss", "Ldss", "Ldidp",
                   "AddF", "SubF", "MulF", "DivF", "ModF",
                   "StackAlloc", "StackDealloc", "Push", "Pop",
                   "WriteLine"} -> <<"u16">>
      [] kind \in {"Movarh", "Movass", "Pushi"} -> <<"u8">>
      [] kind = "Setrh" -> <<"u8", "u16">>
      [] kind = "Setirh" -> <<"u8", "i8">>
      [] kind = "Ldirh" -> <<"i8s">>
      [] kind \in {"Writess", "Setss"} -> <<"u16", "u8">>
      [] kind = "Setiss" -> <<"u8", "u8">>
      [] kind = "OmegaChoiceSet" -> <<"choice">>
      [] kind \in {"OmegaSetSentience", "OmegaSetPaperclipProduction"} -> <<"bool">>
      [] kind \in {"DebugMemoryRegion", "DebugStackRegion"} -> <<"u16", "u16">>
      [] OTHER -> <<>>

\* one operand write
load_operand(w, type, v) ==
    CASE type = "u16" -> load_bytes_inner(w, to_be_bytes(v, 2))
      [] type = "u8" -> load_byte(w, v)
      [] type = "i8" -> load_byte(w, i8_to_u8(v))
      [] type = "bool" -> load_byte(w, IF v # 0 THEN 1 ELSE 0)
      [] type = "choice" -> load_byte(w, choice_to_u8(v))
      [] type = "i8s" -> load_bytes_inner(w, [k \in 1 .. Len(v) |-> i8_to_u8(v[k])])

\* the operands of an instruction as LoadLayout groups them: the array of
\* Ldirh is one operand
LoadOperands(x) == IF x.kind = "Ldirh" THEN <<x.ops>> ELSE x.ops

RECURSIVE load_operands(_, _, _)
load_operands(w, layout, ops) ==
    IF layout = <<>> THEN w
    ELSE load_operands(load_operand(w, Head(layout), Head(ops)), Tail(layout), Tail(ops))

\* load_instruction(instruction, &mut offset) on machine m: the opcode byte,
\* then the operands.  The result is the machine after the call, the offset
\* after it and the panic, if any.
load_instruction(m, x, offset) ==
    LET w0 == [ok |-> TRUE, memory |-> m.memory, offset |-> offset]
        w1 == load_byte(w0, Opcode(x.kind))
        w2 == load_operands(w1, LoadLayout(x.kind), LoadOperands(x))
    IN  [machine |-> [m EXCEPT !.memory = w2.memory],
         offset |-> w2.offset,
         fault |-> IF w2.ok THEN "none" ELSE "index_out_of_bounds"]

-----------------------------------------------------------------------------
(* Vec<u8>, as the Stack and the ConstantSizeString use it.  A u32 or u64  *)
(* of the program is kept as its big-endian bytes.                         *)

\* Vec::with_capacity(n)
with_capacity(n) == [vec |-> <<>>, capacity |-> n]

\* the capacity of a Vec of capacity `capacity` once pushes have brought it
\* to length len: a push onto a full Vec reallocates, at least doubling the
\* capacity
RECURSIVE grow_amortized(_, _)
grow_amortized(capacity, len) ==
    IF len <= capacity THEN capacity
    ELSE grow_amortized(Max(Max(2 * capacity, capacity + 1), 8), len)

\* Vec::push
vec_push(v, byte) ==
    [vec |-> Append(v.vec, byte),
     capacity |-> grow_amortized(v.capacity, Len(v.vec) + 1)]

\* Vec::pop
vec_pop(v) ==
    IF v.vec = <<>> THEN [v |-> v, some |-> FALSE, val |-> 0]
    ELSE [v |-> [v EXCEPT !.vec = SubSeq(v.vec, 1, Len(v.vec) - 1)],
          some |-> TRUE, val |-> v.vec[Len(v.vec)]]

-----------------------------------------------------------------------------
(* machine/stack/mod.rs                                                    *)

\* Stack::default()
DefaultStack == with_capacity(StackCapacity)

total_space(stack) == stack.capacity
used_space(stack) == Len(stack.vec)
space_left(stack) == total_space(stack) - used_space(stack)

\* a push_byte that does not look at the space left
push_byte_without_space_check(stack, byte) ==
    [stack |-> vec_push(stack, byte), ok |-> TRUE]

\* push_byte: [stack, ok]; ok = FALSE is Err(StackOverflow)
push_byte(stack, byte) ==
    IF space_left(stack) = 0 THEN [stack |-> stack, ok |-> FALSE]
    ELSE [stack |-> vec_push(stack, byte), ok |-> TRUE]

\* a pop_byte that answers an empty stack with the byte 0
pop_byte_or_zero(stack) ==
    LET r == vec_pop(stack)
    IN  [stack |-> r.v, some |-> TRUE, val |-> r.val]

\* pop_byte: [stack, some, val]; some = FALSE is None
pop_byte(stack) ==
    LET r == vec_pop(stack)
    IN  [stack |-> r.v, some |-> r.some, val |-> r.val]

\* alloc(bytes)
\* `for _ in 0..bytes { self.vec.push(0) }`: the vector after the pushes
push_zeros(stack, n) ==
    [vec |-> stack.vec \o [k \in 1 .. n |-> 0],
     capacity |-> grow_amortized(stack.capacity, Len(stack.vec) + n)]

alloc(stack, bytes) ==
    IF bytes > space_left(stack) THEN [stack |-> stack, ok |-> FALSE]
    ELSE [stack |-> push_zeros(stack, bytes), ok |-> TRUE]

\* a push_bytes that pushes the bytes that fit before it reports the overflow
push_bytes_partial(stack, bytes) ==
    LET fit == Min(Len(bytes), space_left(stack))
    IN  [stack |-> [push_zeros(stack, fit) EXCEPT !.vec =
                        stack.vec \o SubSeq(bytes, 1, fit)],
         ok |-> fit = Len(bytes)]

\* push_bytes(bytes): alloc, then the bytes copied over the allocated zeros
push_bytes(stack, bytes) ==
    LET len == used_space(stack)
        a == alloc(stack, Len(bytes))
    IN  IF ~a.ok THEN [stack |-> stack, ok |-> FALSE]
        ELSE [stack |-> [a.stack EXCEPT !.vec =
                            SubSeq(a.stack.vec, 1, len) \o bytes],
              ok |-> TRUE]

\* dealloc(bytes)
dealloc(stack, bytes) ==
    LET len == used_space(stack)
    IN  IF bytes > len THEN [stack |-> stack, ok |-> FALSE]
        ELSE [stack |-> [stack EXCEPT !.vec = SubSeq(stack.vec, 1, len - bytes)],
              ok |-> TRUE]

\* a pop that fills its array from the front: array[0] = pop_byte()?, ..
RECURSIVE pop_array_from_front(_, _, _)
pop_array_from_front(stack, n, array) ==
    IF n = 0 THEN [stack |-> stack, some |-> TRUE, bytes |-> array]
    ELSE LET r == pop_byte(stack)
         IN  IF ~r.some THEN [stack |-> r.stack, some |-> FALSE, bytes |-> <<>>]
             ELSE pop_array_from_front(r.stack, n - 1, array \o <<r.val>>)

\* the shared shape of pop_u16, pop_u32 and pop_u64: array[n-1] = pop_byte()?,
\* .., array[0] = pop_byte()?.  A `?` on an empty stack returns None with the
\* bytes popped so far gone.  [stack, some, bytes]: bytes is the array.
RECURSIVE pop_array(_, _, _)
pop_array(stack, n, array) ==
    IF n = 0 THEN [stack |-> stack, some |-> TRUE, bytes |-> array]
    ELSE LET r == pop_byte(stack)
         IN  IF ~r.some THEN [stack |-> r.stack, some |-> FALSE, bytes |-> <<>>]
             ELSE pop_array(r.stack, n - 1, <<r.val>> \o array)

pop_u16(stack) == pop_array(stack, 2, <<>>)
pop_u32(stack) == pop_array(stack, 4, <<>>)
pop_u64(stack) == pop_array(stack, 8, <<>>)

-----------------------------------------------------------------------------
(* utils/constant_size_string.rs                                           *)

\* push_byte: the byte is written only below the capacity
css_push_byte(css, byte) ==
    IF Len(css.vec) < css.capacity
    THEN [css |-> [css EXCEPT !.vec = Append(css.vec, byte)], ok |-> TRUE]
    ELSE [css |-> css, ok |-> FALSE]

\* a push_bytes that writes the bytes that fit before it reports Overflow
css_push_bytes_partial(css, bytes) ==
    IF Len(css.vec) + Len(bytes) > css.capacity
    THEN [css |-> [css EXCEPT !.vec =
                     css.vec \o SubSeq(bytes, 1, css.capacity - Len(css.vec))],
          ok |-> FALSE]
    ELSE [css |-> [css EXCEPT !.vec = css.vec \o bytes], ok |-> TRUE]

css_push_bytes(css, bytes) ==
    IF Len(css.vec) + Len(bytes) > css.capacity
    THEN [css |-> css, ok |-> FALSE]
    ELSE [css |-> [css EXCEPT !.vec = css.vec \o bytes], ok |-> TRUE]

css_pop_byte(css) ==
    LET r == vec_pop(css)
    IN  [css |-> r.v, some |-> r.some, val |-> r.val]

css_clear(css) == [css EXCEPT !.vec = <<>>]

css_len(css) == Len(css.vec)

\* get(index): [some, val]
css_get(css, index) ==
    IF index < Len(css.vec) THEN [some |-> TRUE, val |-> css.vec[index + 1]]
    ELSE [some |-> FALSE, val |-> 0]

\* set(index, value): ok = FALSE is Err(Overflow)
css_set(css, index, value) ==
    IF index < Len(css.vec)
    THEN [css |-> [css EXCEPT !.vec[index + 1] = value], ok |-> TRUE]
    ELSE [css |-> css, ok |-> FALSE]

-----------------------------------------------------------------------------
(* utils/primes.rs                                                         *)

is_fib_prime_or_semiprime_u16(n) ==
    n \in {1, 2, 3, 5, 13, 21, 34, 55, 89, 233, 377, 1597, 4181, 17711, 28657}

-----------------------------------------------------------------------------
(* Integer operations of the standard library the instructions use.        *)

\* the bits of a 16-bit value combined by f, a function of two bits
RECURSIVE bits16(_, _, _, _)
bits16(a, b, f, n) ==
    IF n = 0 THEN 0
    ELSE 2 * bits16(a \div 2, b \div 2, f, n - 1) + f[a % 2][b % 2]

AndBit == [x \in 0 .. 1 |-> [y \in 0 .. 1 |-> x * y]]
OrBit == [x \in 0 .. 1 |-> [y \in 0 .. 1 |-> IF x + y > 0 THEN 1 ELSE 0]]
XorBit == [x \in 0 .. 1 |-> [y \in 0 .. 1 |-> (x + y) % 2]]

u16_and(a, b) == bits16(a, b, AndBit, 16)
u16_or(a, b) == bits16(a, b, OrBit, 16)
u16_xor(a, b) == bits16(a, b, XorBit, 16)
\* the two's complement negation in place of the complement
u16_negate(a) == (U16Range - a) % U16Range

u16_not(a) == (U16Range - 1) - a

\* an addition that wraps without reporting it
overflowing_add_unreported(a, b) == <<(a + b) % U16Range, FALSE>>

\* a subtraction with its operands the other way round
overflowing_sub_reversed(a, b) == <<(b - a) % U16Range, b < a>>

\* u16::overflowing_add / overflowing_sub / overflowing_mul: <<value, overflow>>
overflowing_add(a, b) == <<(a + b) % U16Range, a + b >= U16Range>>
overflowing_sub(a, b) == <<(a - b) % U16Range, a < b>>
overflowing_mul(a, b) ==
    <<((((a * (b \div 256)) % 256) * 256) + (a * (b % 256))) % U16Range,
      a # 0 /\ b > (U16Range - 1) \div a>>

\* the eight bytes of a u64 plus a carry
RECURSIVE add_carry(_, _)
add_carry(bytes, c) ==
    IF bytes = <<>> THEN [bytes |-> <<>>, carry |-> c]
    ELSE LET last == bytes[Len(bytes)] + c
             rest == add_carry(SubSeq(bytes, 1, Len(bytes) - 1), last \div 256)
         IN  [bytes |-> Append(rest.bytes, last % 256), carry |-> rest.carry]

\* the eight bytes of a u64 minus a borrow
RECURSIVE sub_borrow(_, _)
sub_borrow(bytes, c) ==
    IF bytes = <<>> THEN [bytes |-> <<>>, borrow |-> c]
    ELSE LET last == bytes[Len(bytes)] - c
             rest == sub_borrow(SubSeq(bytes, 1, Len(bytes) - 1),
                                IF last < 0 THEN 1 ELSE 0)
         IN  [bytes |-> Append(rest.bytes, last % 256), borrow |-> rest.borrow]

U64Zero == [k \in 1 .. 8 |-> 0]
U64Max == [k \in 1 .. 8 |-> 255]

\* an addition that wraps around at 2^64
wrapping_add_u64(bytes, n) == add_carry(bytes, n).bytes

\* u64::saturating_add(x, n as u64) and saturating_sub for a u8 n
saturating_add(bytes, n) ==
    LET r == add_carry(bytes, n)
    IN  IF r.carry > 0 THEN U64Max ELSE r.bytes

saturating_sub(bytes, n) ==
    LET r == sub_borrow(bytes, n)
    IN  IF r.borrow > 0 THEN U64Zero ELSE r.bytes

-----------------------------------------------------------------------------
(* Text.                                                                   *)

Cont(b) == b >= 128 /\ b <= 191

\* the length of the well-formed UTF-8 sequence starting at bytes[i], 0 if
\* there is none (core::str::from_utf8's acceptance)
Utf8SeqLen(bytes, i) ==
    LET n == Len(bytes)
        b0 == bytes[i]
        b1 == IF i + 1 <= n THEN bytes[i + 1] ELSE 0
        b2 == IF i + 2 <= n THEN bytes[i + 2] ELSE 0
        b3 == IF i + 3 <= n THEN bytes[i + 3] ELSE 0
    IN  CASE b0 <= 127 -> 1
          [] b0 >= 194 /\ b0 <= 223 -> IF Cont(b1) THEN 2 ELSE 0
          [] b0 = 224 -> IF b1 >= 160 /\ b1 <= 191 /\ Cont(b2) THEN 3 ELSE 0
          [] (b0 >= 225 /\ b0 <= 236) \/ b0 = 238 \/ b0 = 239 ->
                IF Cont(b1) /\ Cont(b2) THEN 3 ELSE 0
          [] b0 = 237 -> IF b1 >= 128 /\ b1 <= 159 /\ Cont(b2) THEN 3 ELSE 0
          [] b0 = 240 ->
                IF b1 >= 144 /\ b1 <= 191 /\ Cont(b2) /\ Cont(b3) THEN 4 ELSE 0
          [] b0 >= 241 /\ b0 <= 243 ->
                IF Cont(b1) /\ Cont(b2) /\ Cont(b3) THEN 4 ELSE 0
          [] b0 = 244 ->
                IF b1 >= 128 /\ b1 <= 143 /\ Cont(b2) /\ Cont(b3) THEN 4 ELSE 0
          [] OTHER -> 0

RECURSIVE IsUtf8From(_, _)
IsUtf8From(bytes, i) ==
    IF i > Len(bytes) THEN TRUE
    ELSE LET k == Utf8SeqLen(bytes, i)
         IN  k > 0 /\ IsUtf8From(bytes, i + k)

\* str::from_utf8(bytes).is_ok()
IsUtf8(bytes) == IsUtf8From(bytes, 1)

\* a char as the four big-endian bytes of `c as u32`
CharOf(code) == <<0, code \div 65536, (code \div 256) % 256, code % 256>>
CodeOf(ch) == ch[2] * 65536 + ch[3] * 256 + ch[4]

\* a u32 that is a char: a scalar value, no surrogate
IsChar(ch) ==
    /\ ch[1] = 0
    /\ CodeOf(ch) <= 1114111
    /\ ~(CodeOf(ch) >= 55296 /\ CodeOf(ch) <= 57343)

\* char::encode_utf8 of a scalar value: the 1 to 4 bytes written
encode_utf8(code) ==
    CASE code < 128 -> <<code>>
      [] code >= 128 /\ code < 2048 ->
            <<192 + (code \div 64), 128 + (code % 64)>>
      [] code >= 2048 /\ code < 65536 ->
            <<224 + (code \div 4096), 128 + ((code \div 64) % 64), 128 + (code % 64)>>
      [] OTHER ->
            <<240 + (code \div 262144), 128 + ((code \div 4096) % 64),
              128 + ((code \div 64) % 64), 128 + (code % 64)>>

\* the decimal digits of a natural number, as ASCII
RECURSIVE Digits(_)
Digits(n) == IF n < 10 THEN <<48 + n>> ELSE Append(Digits(n \div 10), 48 + (n % 10))

\* format!("{}", v) of an i32, as ASCII
DisplayI32(v) ==
    IF v >= 0 THEN Digits(v)
    ELSE <<45>> \o (IF v = -2147483647 - 1
                    THEN <<50, 49, 52, 55, 52, 56, 51, 54, 52, 56>>
                    ELSE Digits(-v))

-----------------------------------------------------------------------------
(* machine/mod.rs: the Machine.                                            *)

\* Machine::default() of a build with (debug) or without debug assertions
DefaultMachine(debug) ==
    [reg_a |-> 0,
     reg_b |-> 0,
     reg_L |-> 0,
     reg_f |-> U64Zero,
     reg_ch |-> CharOf(0),
     reg_rh |-> [k \in 1 .. RhLen |-> 0],
     reg_ss |-> with_capacity(StringCapacity),
     reg_Omega |-> ZEROED,
     num_reg |-> 0,
     reg_ep |-> 0,
     reg_dp |-> 0,
     flag |-> FALSE,
     debug_mode |-> debug,
     halted |-> FALSE,
     memory |-> EmptyMemory,
     stack |-> DefaultStack]

\* What the instruction does to the world outside the machine, in order:
\* bytes written to stdout or stderr, bytes read from stdin, keys read from
\* the terminal.  The text of a debug dump is outside the model: its event
\* has no bytes.
Event(chan, src, bytes) == [chan |-> chan, src |-> src, bytes |-> bytes]

\* What the host decides during one instruction: the key the terminal
\* delivers and whether raw mode could be switched, the bytes stdin holds
\* and whether reading them succeeds, whether a write to stdout succeeds,
\* the result of a floating-point operation (IEEE arithmetic is outside the
\* model: any of the sample results may come out), and what undefined
\* behaviour turns into.
NdDefault ==
    [f |-> U64Zero, raw_ok |-> TRUE, key |-> 48, read_err |-> FALSE,
     disable_ok |-> TRUE, write_ok |-> TRUE, stdin_ok |-> TRUE, line |-> <<>>,
     ub |-> 5]

\* the result of execute_instruction: the machine after it, the panic if
\* any, and the events it caused
Ok(m) == [machine |-> m, fault |-> "none", out |-> <<>>]
OkOut(m, out) == [machine |-> m, fault |-> "none", out |-> out]
Panic(m, why) == [machine |-> m, fault |-> why, out |-> <<>>]
PanicOut(m, why, out) == [machine |-> m, fault |-> why, out |-> out]

\* num_debug
num_debug(m) ==
    IF m.reg_Omega.should_make_infinite_paperclips
    THEN <<Event("stdout", "num_debug", DisplayI32(m.num_reg) \o <<58, 32>>)>>
    ELSE <<>>

\* `self.memory[self.reg_dp as usize] != b'.'`; reg_dp out of bounds panics
dot_index_ok(m) == InBounds(m.reg_dp)
\* a dot check that always finds the dot
dot_missing_never(m) == FALSE

dot_missing(m) == mem_get(m.memory, m.reg_dp) # Dot

\* for i in 0..len: memory[data.wrapping_add(i)] = bytes[i], up to the first
\* index out of bounds
\* (fewer than U16Range bytes, so that no address is written twice)
store_wrapping(memory, data, bytes, i) ==
    LET idx(k) == (data + (k - 1)) % U16Range
        bad == {k \in i .. Len(bytes) : ~InBounds(idx(k))}
        stop == IF bad = {} THEN Len(bytes) + 1
                ELSE CHOOSE k \in bad : \A j \in bad : k <= j
        addrs == {idx(k) : k \in i .. stop - 1}
        val(a) == IF a \in addrs THEN bytes[((a - data) % U16Range) + 1]
                  ELSE memory[a]
        dom == {a \in DOMAIN memory \cup addrs : val(a) # 0}
    IN  [ok |-> bad = {}, memory |-> [a \in dom |-> val(a)]]

\* the number of cells, of `len` starting at data with wrapping indices,
\* before the first index out of bounds
wrapping_run(data, len) ==
    IF \E i \in 0 .. len - 1 : ~InBounds((data + i) % U16Range)
    THEN (MemLen - data) % U16Range
    ELSE len

\* a slice that takes the byte at `to` along
mem_slice_inclusive(memory, from, to) ==
    [k \in 1 .. to - from + 1 |-> mem_get(memory, from + k - 1)]

\* &memory[from..to] for from <= to <= MemLen
mem_slice(memory, from, to) == [k \in 1 .. to - from |-> mem_get(memory, from + k - 1)]

\* index_u64(memory, idx) reads idx.wrapping_add(0 .. 7): whether all are in
\* bounds
index_u64_ok(idx) == \A k \in 0 .. 7 : InBounds((idx + k) % U16Range)

\* the end of the C string at memory[data ..]: the address of its NUL, or
\* MemLen if the memory holds none from there on
RECURSIVE cstr_end(_, _)
cstr_end(memory, a) ==
    IF a >= MemLen THEN MemLen
    ELSE IF mem_get(memory, a) = 0 THEN a
    ELSE cstr_end(memory, a + 1)

\* a jump that reads its target with the bytes in the other order
pop_to_ep_little_endian(m) ==
    LET r == pop_u16(m.stack)
    IN  IF r.some
        THEN [m EXCEPT !.stack = r.stack, !.reg_ep = r.bytes[2] * U8Range + r.bytes[1]]
        ELSE [m EXCEPT !.stack = r.stack, !.flag = TRUE]

\* try_stack!(pop stack => pop_u16, fn |v| reg_ep = v, flag => true)
pop_to_ep(m) ==
    LET r == pop_u16(m.stack)
    IN  IF r.some
        THEN [m EXCEPT !.stack = r.stack, !.reg_ep = from_be_bytes(r.bytes)]
        ELSE [m EXCEPT !.stack = r.stack, !.flag = TRUE]

\* try_stack!(push stack => push_bytes, bytes, flag => true)
try_push_bytes(m, bytes) ==
    LET r == push_bytes(m.stack, bytes)
    IN  IF r.ok THEN [m EXCEPT !.stack = r.stack]
        ELSE [m EXCEPT !.stack = r.stack, !.flag = TRUE]

\* try_stack!(push stack => push_byte, byte, flag => true), and the same
\* shape written out in Push and Pushi
try_push_byte(m, byte) ==
    LET r == push_byte(m.stack, byte)
    IN  IF r.ok THEN [m EXCEPT !.stack = r.stack]
        ELSE [m EXCEPT !.stack = r.stack, !.flag = TRUE]

\* the text display_illusion_of_choice writes, as ASCII: "Some Something
\* with Some valueless Something", "Some Something with Some Nothing", "Some
\* Something with Nothing", "Some Nothing", "Nothing"
ChoiceText(d) ==
    CASE d = 4 ->
                <<83, 111, 109, 101, 32, 83, 111, 109, 101, 116, 104, 105, 110,
                103, 32, 119, 105, 116, 104, 32, 83, 111, 109,
                101, 32, 118, 97, 108, 117, 101, 108, 101, 115,
                115, 32, 83, 111, 109, 101, 116, 104, 105, 110,
                103>>
      [] d = 3 ->
                <<83, 111, 109, 101, 32, 83, 111, 109, 101, 116, 104, 105, 110,
                103, 32, 119, 105, 116, 104, 32, 83, 111, 109,
                101, 32, 78, 111, 116, 104, 105, 110, 103>>
      [] d = 2 ->
                <<83, 111, 109, 101, 32, 83, 111, 109, 101, 116, 104, 105, 110,
                103, 32, 119, 105, 116, 104, 32, 78, 111, 116,
                104, 105, 110, 103>>
      [] d = 1 ->
                <<83, 111, 109, 101, 32, 78, 111, 116, 104, 105, 110, 103>>
      [] d = 0 ->
                <<78, 111, 116, 104, 105, 110, 103>>

-----------------------------------------------------------------------------
(* machine/mod.rs: execute_instruction, one arm of the match per kind.     *)

\* Nop .. Ldirh
exec_rh(m, i, nd) ==
    CASE i.kind = "Nop" -> Ok(m)
      [] i.kind = "Ldar" ->
            IF InBounds(i.ops[1])
            THEN Ok([m EXCEPT !.reg_a = mem_get(m.memory, i.ops[1])])
            ELSE Panic(m, "index_out_of_bounds")
      [] i.kind = "Sba" ->
            Ok([m EXCEPT !.reg_a = IF m.reg_b < 0 THEN 255
                                   ELSE IF m.reg_b = 0 THEN 0 ELSE 1])
      [] i.kind = "Clrh" -> Ok([m EXCEPT !.reg_rh = [k \in 1 .. RhLen |-> 0]])
      [] i.kind = "Dumprh" ->
            LET r == store_wrapping(m.memory, i.ops[1],
                                    [k \in 1 .. RhLen |-> i8_to_u8(m.reg_rh[k])], 1)
            IN  IF r.ok THEN Ok([m EXCEPT !.memory = r.memory])
                ELSE Panic([m EXCEPT !.memory = r.memory], "index_out_of_bounds")
      [] i.kind = "Movarh" ->
            IF i.ops[1] < RhLen
            THEN Ok([m EXCEPT !.reg_a = i8_to_u8(m.reg_rh[i.ops[1] + 1])])
            ELSE Ok(m)
      [] i.kind = "Setrh" ->
            IF i.ops[1] < RhLen
            THEN IF InBounds(i.ops[2])
                 THEN Ok([m EXCEPT !.memory =
                            mem_set(m.memory, i.ops[2], i8_to_u8(m.reg_rh[i.ops[1] + 1]))])
                 ELSE Panic(m, "index_out_of_bounds")
            ELSE Ok(m)
      [] i.kind = "Setirh" ->
            IF i.ops[1] < RhLen
            THEN Ok([m EXCEPT !.reg_rh[i.ops[1] + 1] = i.ops[2]])
            ELSE Ok(m)
      [] i.kind = "Ldrh" ->
            LET n == wrapping_run(i.ops[1], RhLen)
                rh == [k \in 1 .. RhLen |->
                         IF k <= n
                         THEN u8_to_i8(mem_get(m.memory, (i.ops[1] + k - 1) % U16Range))
                         ELSE m.reg_rh[k]]
            IN  IF n = RhLen THEN Ok([m EXCEPT !.reg_rh = rh])
                ELSE Panic([m EXCEPT !.reg_rh = rh], "index_out_of_bounds")
      [] i.kind = "Ldirh" -> Ok([m EXCEPT !.reg_rh = i.ops])

\* Clss .. Ldidp
exec_ss(m, i, nd) ==
    CASE i.kind = "Clss" -> Ok([m EXCEPT !.reg_ss = css_clear(m.reg_ss)])
      [] i.kind = "Dumpss" ->
            LET r == store_wrapping(m.memory, i.ops[1], m.reg_ss.vec, 1)
            IN  IF r.ok THEN Ok([m EXCEPT !.memory = r.memory])
                ELSE Panic([m EXCEPT !.memory = r.memory], "index_out_of_bounds")
      [] i.kind = "Writess" ->
            LET g == css_get(m.reg_ss, i.ops[2])
            IN  IF ~g.some THEN Ok([m EXCEPT !.flag = TRUE])
                ELSE IF ~InBounds(i.ops[1]) THEN Panic(m, "index_out_of_bounds")
                ELSE Ok([m EXCEPT !.memory = mem_set(m.memory, i.ops[1], g.val),
                                  !.reg_a = g.val])
      [] i.kind = "Movass" ->
            Ok([m EXCEPT !.reg_ss = css_set(m.reg_ss, i.ops[1], m.reg_a).css])
      [] i.kind = "Setss" ->
            IF ~InBounds(i.ops[1]) THEN Panic(m, "index_out_of_bounds")
            ELSE LET r == css_set(m.reg_ss, i.ops[2], mem_get(m.memory, i.ops[1]))
                 IN  IF r.ok THEN Ok([m EXCEPT !.reg_ss = r.css])
                     ELSE Ok([m EXCEPT !.flag = TRUE])
      [] i.kind = "Setiss" ->
            LET r == css_set(m.reg_ss, i.ops[2], i.ops[1])
            IN  IF r.ok THEN Ok([m EXCEPT !.reg_ss = r.css])
                ELSE Ok([m EXCEPT !.flag = TRUE])
      [] i.kind = "Ldss" ->
            LET to == Min(i.ops[1] + 255, U16Range - 1)
                r == css_push_bytes(css_clear(m.reg_ss), mem_slice(m.memory, i.ops[1], to))
            IN  IF r.ok THEN Ok([m EXCEPT !.reg_ss = r.css])
                ELSE Ok([m EXCEPT !.reg_ss = r.css, !.flag = TRUE])
      [] i.kind = "Pushss" ->
            LET p == pop_byte(m.stack)
            IN  IF ~p.some THEN Ok([m EXCEPT !.flag = TRUE])
                ELSE LET r == css_push_byte(m.reg_ss, p.val)
                     IN  IF r.ok THEN Ok([m EXCEPT !.stack = p.stack, !.reg_ss = r.css])
                         ELSE Ok([m EXCEPT !.stack = p.stack, !.flag = TRUE])
      [] i.kind = "Popss" ->
            LET p == css_pop_byte(m.reg_ss)
            IN  IF ~p.some THEN Ok([m EXCEPT !.flag = TRUE])
                ELSE LET r == push_byte(m.stack, p.val)
                     IN  IF r.ok THEN Ok([m EXCEPT !.reg_ss = p.css, !.stack = r.stack])
                         ELSE Ok([m EXCEPT !.reg_ss = p.css, !.flag = TRUE])
      [] i.kind = "Lenssa" -> Ok([m EXCEPT !.reg_a = css_len(m.reg_ss) % U8Range])
      [] i.kind = "Ldidp" ->
            IF is_fib_prime_or_semiprime_u16(i.ops[1])
            THEN Ok([m EXCEPT !.reg_dp = i.ops[1]])
            ELSE Ok([m EXCEPT !.flag = FALSE])

\* a sentience that can be taken away
set_sentience_either_way(m, enable) == [m EXCEPT !.reg_Omega.is_sentient = enable]

\* the arm of OmegaSetSentience, without its eprintln!
set_sentience(m, enable) ==
    IF enable THEN [m EXCEPT !.reg_Omega.is_sentient = TRUE]
    ELSE [m EXCEPT !.flag = TRUE]

\* a skip to the chase that does not look at the feeling of impending doom
skip_to_the_chase_without_doom(m) == [m EXCEPT !.halted = TRUE]

\* the arm of OmegaSkipToTheChase
skip_to_the_chase(m) ==
    IF m.reg_Omega.feeling_of_impending_doom
    THEN [m EXCEPT !.halted = TRUE]
    ELSE m

\* OmegaChoiceSet .. OmegaSetPaperclipProduction
exec_Omega(m, i, nd) ==
    CASE i.kind = "OmegaChoiceSet" ->
            Ok([m EXCEPT !.reg_Omega.illusion_of_choice = i.ops[1]])
      [] i.kind = "OmegaChoiceGetA" -> Ok([m EXCEPT !.reg_a = 0])
      [] i.kind = "OmegaGainAPolymorphicDesires" ->
            Ok([m EXCEPT !.reg_Omega.polymorphic_desires =
                    saturating_add(m.reg_Omega.polymorphic_desires, m.reg_a)])
      [] i.kind = "OmegaLoseAPolymorphicDesires" ->
            Ok([m EXCEPT !.reg_Omega.polymorphic_desires =
                    saturating_sub(m.reg_Omega.polymorphic_desires, m.reg_a)])
      [] i.kind = "OmegaPushPolymorphicDesires" ->
            Ok(try_push_bytes(m, m.reg_Omega.polymorphic_desires))
      [] i.kind = "OmegaTheEndIsNear" ->
            Ok([m EXCEPT !.reg_Omega.feeling_of_impending_doom = TRUE])
      [] i.kind = "OmegaSkipToTheChase" -> Ok(skip_to_the_chase(m))
      [] i.kind = "OmegaSetSentience" ->
            IF i.ops[1] # 0
            THEN Ok(set_sentience(m, TRUE))
            ELSE OkOut(set_sentience(m, FALSE),
                       <<Event("stderr", "OmegaSetSentience", <<>>)>>)
      [] i.kind = "OmegaSetPaperclipProduction" ->
            Ok([m EXCEPT !.reg_Omega.should_make_infinite_paperclips = (i.ops[1] # 0)])

\* a CmpLB that subtracts with wrap-around instead of checked_sub
cmp_lb_wrapping(m) ==
    LET clamp == m.reg_L > 32767
        L == IF clamp THEN 32767 ELSE m.reg_L
    IN  [m EXCEPT !.reg_L = L,
                  !.reg_b = u16_to_i16((L - m.reg_b) % U16Range),
                  !.flag = IF clamp THEN TRUE ELSE m.flag]

\* the arm of CmpLB: reg_L above i16::MAX is set to i16::MAX with the flag,
\* then reg_b = reg_L.checked_sub(reg_b), or i16::MAX with the flag
cmp_lb(m) ==
    LET clamp == m.reg_L > 32767
        L == IF clamp THEN 32767 ELSE m.reg_L
        res == u16_to_i16(L) - m.reg_b
        fits == res >= -32768 /\ res <= 32767
    IN  [m EXCEPT !.reg_L = L,
                  !.reg_b = IF fits THEN res ELSE 32767,
                  !.flag = IF clamp \/ ~fits THEN TRUE ELSE m.flag]

\* a remainder that answers a zero divisor with the dividend
checked_rem_or_self(a, b) == IF b = 0 THEN a ELSE a % b

\* u16::checked_rem(b).unwrap_or(0)
checked_rem_or_zero(a, b) == IF b = 0 THEN 0 ELSE a % b

\* AddBL .. ModF
exec_arith(m, i, nd) ==
    CASE i.kind = "AddBL" ->
            LET r == overflowing_add(m.reg_L, i16_to_u16(m.reg_b))
            IN  Ok([m EXCEPT !.reg_L = r[1], !.flag = r[2]])
      [] i.kind = "SubBL" ->
            LET r == overflowing_sub(m.reg_L, i16_to_u16(m.reg_b))
            IN  Ok([m EXCEPT !.reg_L = r[1], !.flag = r[2]])
      [] i.kind = "MulBL" ->
            LET r == overflowing_mul(m.reg_L, i16_to_u16(m.reg_b))
            IN  Ok([m EXCEPT !.reg_L = r[1], !.flag = r[2]])
      [] i.kind = "DivBL" ->
            IF m.reg_b = 0 THEN Panic(m, "divide_by_zero")
            ELSE Ok([m EXCEPT !.reg_L = m.reg_L \div i16_to_u16(m.reg_b),
                              !.flag = FALSE])
      [] i.kind = "ModBL" ->
            Ok([m EXCEPT !.reg_L = checked_rem_or_zero(m.reg_L, i16_to_u16(m.reg_b))])
      [] i.kind = "NotL" -> Ok([m EXCEPT !.reg_L = u16_not(m.reg_L)])
      [] i.kind = "AndBL" ->
            Ok([m EXCEPT !.reg_L = u16_and(m.reg_L, i16_to_u16(m.reg_b))])
      [] i.kind = "OrBL" ->
            Ok([m EXCEPT !.reg_L = u16_or(m.reg_L, i16_to_u16(m.reg_b))])
      [] i.kind = "XorBL" ->
            Ok([m EXCEPT !.reg_L = u16_xor(m.reg_L, i16_to_u16(m.reg_b))])
      [] i.kind = "CmpLB" -> Ok(cmp_lb(m))
      [] i.kind = "TgFlag" -> Ok([m EXCEPT !.flag = ~m.flag])
      [] i.kind = "ClFlag" -> Ok([m EXCEPT !.flag = FALSE])
      [] i.kind \in {"AddF", "SubF", "MulF", "DivF", "ModF"} ->
            IF index_u64_ok(i.ops[1]) THEN Ok([m EXCEPT !.reg_f = nd.f])
            ELSE Panic(m, "index_out_of_bounds")

\* StackAlloc .. Pushnum
exec_stack(m, i, nd) ==
    CASE i.kind = "StackAlloc" ->
            LET r == alloc(m.stack, i.ops[1])
            IN  IF r.ok THEN Ok([m EXCEPT !.stack = r.stack])
                ELSE Ok([m EXCEPT !.stack = r.stack, !.flag = TRUE])
      [] i.kind = "StackDealloc" ->
            LET r == dealloc(m.stack, i.ops[1])
            IN  IF r.ok THEN Ok([m EXCEPT !.stack = r.stack])
                ELSE Ok([m EXCEPT !.stack = r.stack, !.flag = TRUE])
      [] i.kind = "Push" ->
            IF InBounds(i.ops[1])
            THEN Ok(try_push_byte(m, mem_get(m.memory, i.ops[1])))
            ELSE Panic(m, "index_out_of_bounds")
      [] i.kind = "Pushi" -> Ok(try_push_byte(m, i.ops[1]))
      [] i.kind = "Pop" ->
            LET r == pop_byte(m.stack)
            IN  IF ~r.some THEN Ok([m EXCEPT !.flag = TRUE])
                ELSE IF InBounds(i.ops[1])
                THEN Ok([m EXCEPT !.stack = r.stack,
                                  !.memory = mem_set(m.memory, i.ops[1], r.val)])
                ELSE Panic([m EXCEPT !.stack = r.stack], "index_out_of_bounds")
      [] i.kind = "Popa" ->
            LET r == pop_byte(m.stack)
            IN  IF r.some THEN Ok([m EXCEPT !.stack = r.stack, !.reg_a = r.val])
                ELSE Ok([m EXCEPT !.flag = TRUE])
      [] i.kind = "Pusha" -> Ok(try_push_byte(m, m.reg_a))
      [] i.kind = "Popb" ->
            LET r == pop_u16(m.stack)
            IN  IF r.some
                THEN Ok([m EXCEPT !.stack = r.stack,
                                  !.reg_b = u16_to_i16(from_be_bytes(r.bytes))])
                ELSE Ok([m EXCEPT !.stack = r.stack, !.flag = TRUE])
      [] i.kind = "Pushb" -> Ok(try_push_bytes(m, to_be_bytes(i16_to_u16(m.reg_b), 2)))
      [] i.kind = "PopL" ->
            LET r == pop_u16(m.stack)
            IN  IF r.some
                THEN Ok([m EXCEPT !.stack = r.stack, !.reg_L = from_be_bytes(r.bytes)])
                ELSE Ok([m EXCEPT !.stack = r.stack, !.flag = TRUE])
      [] i.kind = "PushL" -> Ok(try_push_bytes(m, to_be_bytes(m.reg_L, 2)))
      [] i.kind = "Popf" ->
            LET r == pop_u64(m.stack)
            IN  IF r.some THEN Ok([m EXCEPT !.stack = r.stack, !.reg_f = r.bytes])
                ELSE Ok([m EXCEPT !.stack = r.stack, !.flag = TRUE])
      [] i.kind = "Pushf" -> Ok(try_push_bytes(m, m.reg_f))
      [] i.kind = "Popch" ->
            LET r == pop_u32(m.stack)
            IN  IF r.some THEN Ok([m EXCEPT !.stack = r.stack, !.reg_ch = r.bytes])
                ELSE Ok([m EXCEPT !.stack = r.stack, !.flag = TRUE])
      [] i.kind = "Pushch" -> Ok(try_push_bytes(m, m.reg_ch))
      [] i.kind = "Popnum" ->
            LET r == pop_u32(m.stack)
            IN  IF r.some
                THEN Ok([m EXCEPT !.stack = r.stack, !.num_reg = i32_from_be_bytes(r.bytes)])
                ELSE Ok([m EXCEPT !.stack = r.stack, !.flag = TRUE])
      [] i.kind = "Pushnum" -> Ok(try_push_bytes(m, i32_to_be_bytes(m.num_reg)))

\* jumps that pop their target whatever their condition
exec_jump_unconditional(m, i, nd) == Ok(pop_to_ep(m))

\* Popep .. Dpopep
exec_jump(m, i, nd) ==
    CASE i.kind = "Popep" -> Ok(pop_to_ep(m))
      [] i.kind = "Zpopep" -> IF m.reg_b = 0 THEN Ok(pop_to_ep(m)) ELSE Ok(m)
      [] i.kind = "Ppopep" -> IF m.reg_b > 0 THEN Ok(pop_to_ep(m)) ELSE Ok(m)
      [] i.kind = "Npopep" -> IF m.reg_b < 0 THEN Ok(pop_to_ep(m)) ELSE Ok(m)
      [] i.kind = "Fpopep" -> IF m.flag THEN Ok(pop_to_ep(m)) ELSE Ok(m)
      [] i.kind = "Zapopep" -> IF m.reg_a = 0 THEN Ok(pop_to_ep(m)) ELSE Ok(m)
      [] i.kind = "Dpopep" -> IF m.debug_mode THEN Ok(pop_to_ep(m)) ELSE Ok(m)

\* GetChar .. WriteLine
exec_io(m, i, nd) ==
    CASE i.kind = "GetChar" ->
            IF ~nd.raw_ok THEN Ok([m EXCEPT !.flag = TRUE])
            ELSE OkOut([m EXCEPT !.reg_ch = CharOf(nd.key),
                                 !.flag = IF nd.read_err \/ ~nd.disable_ok
                                          THEN TRUE ELSE m.flag],
                       <<Event("terminal", "GetChar", <<nd.key>>)>>)
      [] i.kind = "GetLine" ->
            IF ~dot_index_ok(m) THEN Panic(m, "index_out_of_bounds")
            ELSE IF dot_missing(m) THEN Ok([m EXCEPT !.flag = TRUE])
            ELSE IF ~nd.stdin_ok
            THEN OkOut([m EXCEPT !.flag = TRUE], <<Event("stdin", "GetLine", <<>>)>>)
            ELSE OkOut(m, <<Event("stdin", "GetLine", nd.line)>>)
      [] i.kind = "WriteChar" ->
            IF ~dot_index_ok(m) THEN Panic(m, "index_out_of_bounds")
            ELSE IF dot_missing(m) THEN Ok([m EXCEPT !.flag = TRUE])
            ELSE IF ~IsChar(m.reg_ch)
            THEN IF nd.ub = 5 THEN PanicOut(m, "undefined_behaviour", num_debug(m))
                 ELSE OkOut(m, num_debug(m) \o
                               <<Event("stdout", "WriteChar(invalid char)", <<>>)>>)
            ELSE IF ~nd.write_ok THEN OkOut([m EXCEPT !.flag = TRUE], num_debug(m))
            ELSE LET text == encode_utf8(CodeOf(m.reg_ch))
                     buf == [k \in 1 .. 4 |-> IF k <= Len(text) THEN text[k] ELSE 0]
                 IN  OkOut(m, num_debug(m) \o <<Event("stdout", "WriteChar", buf)>>)
      [] i.kind = "WriteLiness" ->
            IF ~dot_index_ok(m) THEN Panic(m, "index_out_of_bounds")
            ELSE IF dot_missing(m) THEN Ok([m EXCEPT !.flag = TRUE])
            ELSE IF ~IsUtf8(m.reg_ss.vec)
            THEN PanicOut(m, "invalid_utf8", num_debug(m))
            ELSE OkOut(m, num_debug(m) \o
                          <<Event("stdout", "WriteLiness", m.reg_ss.vec)>>)
      [] i.kind = "WriteLine" ->
            IF ~dot_index_ok(m) THEN Panic(m, "index_out_of_bounds")
            ELSE IF dot_missing(m) THEN Ok([m EXCEPT !.flag = TRUE])
            ELSE LET end == cstr_end(m.memory, i.ops[1])
                     text == mem_slice(m.memory, Min(i.ops[1], end), end)
                 IN  IF end = MemLen /\ nd.ub = 5
                     THEN Panic(m, "undefined_behaviour")
                     ELSE OkOut(m, num_debug(m) \o
                                   <<Event("stdout",
                                           IF end = MemLen THEN "WriteLine(out of bounds)"
                                           ELSE IF IsUtf8(text) THEN "WriteLine"
                                           ELSE "WriteLine(lossy)",
                                           text)>>)

\* ToggleDebug .. ShowChoice
exec_debug(m, i, nd) ==
    CASE i.kind = "ToggleDebug" -> Ok([m EXCEPT !.debug_mode = ~m.debug_mode])
      [] i.kind \in {"DebugMachineState", "DebugMachineStateCompact"} ->
            IF ~dot_index_ok(m) THEN Panic(m, "index_out_of_bounds")
            ELSE IF dot_missing(m) THEN Ok([m EXCEPT !.flag = TRUE])
            ELSE IF ~IsUtf8(m.reg_ss.vec)
            THEN PanicOut(m, "invalid_utf8", num_debug(m))
            ELSE OkOut(m, num_debug(m) \o <<Event("stdout", i.kind, <<>>)>>)
      [] i.kind = "DebugMemoryRegion" ->
            IF ~dot_index_ok(m) THEN Panic(m, "index_out_of_bounds")
            ELSE IF dot_missing(m) THEN Ok([m EXCEPT !.flag = TRUE])
            ELSE IF i.ops[1] > i.ops[2] \/ i.ops[2] > MemLen
            THEN PanicOut(m, "slice_index", num_debug(m))
            ELSE OkOut(m, num_debug(m) \o <<Event("stdout", i.kind, <<>>)>>)
      [] i.kind = "DebugStackRegion" ->
            IF ~dot_index_ok(m) THEN Panic(m, "index_out_of_bounds")
            ELSE IF dot_missing(m) THEN Ok([m EXCEPT !.flag = TRUE])
            ELSE IF i.ops[1] > i.ops[2] \/ i.ops[2] > Len(m.stack.vec)
            THEN PanicOut(m, "slice_index", num_debug(m))
            ELSE OkOut(m, num_debug(m) \o <<Event("stdout", i.kind, <<>>)>>)
      [] i.kind = "ShowChoice" ->
            IF ~dot_index_ok(m) THEN Panic(m, "index_out_of_bounds")
            ELSE IF dot_missing(m) THEN Ok([m EXCEPT !.flag = TRUE])
            ELSE IF m.reg_Omega.illusion_of_choice \notin ChoiceValues
            THEN IF nd.ub = 5 THEN PanicOut(m, "undefined_behaviour", num_debug(m))
                 ELSE OkOut(m, num_debug(m) \o
                               <<Event("stdout", "ShowChoice",
                                       ChoiceText(nd.ub))>>)
            ELSE IF ~nd.write_ok THEN OkOut([m EXCEPT !.flag = TRUE], num_debug(m))
            ELSE OkOut(m, num_debug(m) \o
                          <<Event("stdout", "ShowChoice",
                                  ChoiceText(m.reg_Omega.illusion_of_choice))>>)

RhKinds ==
    {"Nop", "Ldar", "Sba", "Clrh", "Dumprh", "Movarh", "Setrh", "Setirh", "Ldrh",
     "Ldirh"}
SsKinds ==
    {"Clss", "Dumpss", "Writess", "Movass", "Setss", "Setiss", "Ldss", "Pushss",
     "Popss", "Lenssa", "Ldidp"}
OmegaKinds ==
    {"OmegaChoiceSet", "OmegaChoiceGetA", "OmegaGainAPolymorphicDesires",
     "OmegaLoseAPolymorphicDesires", "OmegaPushPolymorphicDesires",
     "OmegaTheEndIsNear", "OmegaSkipToTheChase", "OmegaSetSentience",
     "OmegaSetPaperclipProduction"}
ArithKinds ==
    {"AddBL", "SubBL", "MulBL", "DivBL", "ModBL", "NotL", "AndBL", "OrBL", "XorBL",
     "CmpLB", "TgFlag", "ClFlag", "AddF", "SubF", "MulF", "DivF", "ModF"}
StackKinds ==
    {"StackAlloc", "StackDealloc", "Push", "Pushi", "Pop", "Popa", "Pusha", "Popb",
     "Pushb", "PopL", "PushL", "Popf", "Pushf", "Popch", "Pushch", "Popnum",
     "Pushnum"}
JumpKinds == {"Popep", "Zpopep", "Ppopep", "Npopep", "Fpopep", "Zapopep", "Dpopep"}
IoKinds == {"GetChar", "GetLine", "WriteChar", "WriteLiness", "WriteLine"}

\* execute_instruction(instruction) on machine m, the host deciding nd
execute_instruction(m, i, nd) ==
    CASE i.kind \in RhKinds -> exec_rh(m, i, nd)
      [] i.kind \in SsKinds -> exec_ss(m, i, nd)
      [] i.kind \in OmegaKinds -> exec_Omega(m, i, nd)
      [] i.kind \in ArithKinds -> exec_arith(m, i, nd)
      [] i.kind \in StackKinds -> exec_stack(m, i, nd)
      [] i.kind \in JumpKinds -> exec_jump(m, i, nd)
      [] i.kind \in IoKinds -> exec_io(m, i, nd)
      [] OTHER -> exec_debug(m, i, nd)

-----------------------------------------------------------------------------
(* machine/mod.rs: load_bytes, load, run.                                  *)

\* Machine::load_bytes(bytes, offset): [memory, some, offset]; some = FALSE
\* is None, returned with nothing written when the bytes do not fit
load_bytes(memory, bytes, offset) ==
    IF Len(bytes) + offset > MemLen
    THEN [memory |-> memory, some |-> FALSE, offset |-> offset]
    ELSE [memory |-> store_wrapping(memory, offset, bytes, 1).memory,
          some |-> TRUE,
          offset |-> (offset + Len(bytes)) % U16Range]

\* the items of DataOrInstruction
InstructionItem(x) == [type |-> "Instruction", instruction |-> x, bytes |-> <<>>]
DataItem(bytes) == [type |-> "Data", instruction |-> None, bytes |-> bytes]
ByteDataItem(val) == [type |-> "ByteData", instruction |-> None, bytes |-> <<val>>]

\* one turn of the loop of load
load_item(w, item) ==
    IF w.fault # "none" THEN w
    ELSE CASE item.type = "Instruction" ->
                LET r == load_instruction(w.machine, item.instruction, w.offset)
                IN  [machine |-> r.machine, offset |-> r.offset, fault |-> r.fault]
           [] item.type = "Data" ->
                LET r == load_bytes(w.machine.memory, item.bytes, w.offset)
                IN  [machine |-> [w.machine EXCEPT !.memory = r.memory],
                     offset |-> IF r.some THEN r.offset ELSE w.offset,
                     fault |-> "none"]
           [] item.type = "ByteData" ->
                IF InBounds(w.offset)
                THEN [machine |-> [w.machine EXCEPT !.memory =
                                     mem_set(w.machine.memory, w.offset, item.bytes[1])],
                      offset |-> (w.offset + 1) % U16Range,
                      fault |-> "none"]
                ELSE [w EXCEPT !.fault = "index_out_of_bounds"]

\* `for item in data` over the items lo .. hi of data, the first half of
\* them and then the second
RECURSIVE load_items(_, _, _, _)
load_items(w, data, lo, hi) ==
    IF lo > hi \/ w.fault # "none" THEN w
    ELSE IF lo = hi THEN load_item(w, data[lo])
    ELSE load_items(load_items(w, data, lo, (lo + hi) \div 2),
                    data, (lo + hi) \div 2 + 1, hi)

\* load(data, offset) on machine m: the machine after the call, the offset
\* returned and the panic, if any
load(m, data, offset) ==
    load_items([machine |-> m, offset |-> offset, fault |-> "none"],
               data, 1, Len(data))

\* load_instructions(instructions, offset)
load_instructions(m, instructions, offset) ==
    load(m, [k \in 1 .. Len(instructions) |-> InstructionItem(instructions[k])], offset)

\* `instruction.expect(..)` in run: None panics
expect(ret) == IF ret = None THEN "invalid_opcode" ELSE "none"

\* a run() that returns num_reg
run_result_num_reg(m) == m.num_reg

\* the value run() returns
run_result(m) == m.reg_a

\* Termination::report(self): reg_a as the ExitCode
report(m) == m.reg_a

\* the condition of the loop of run
run_continues(m) == ~m.halted

-----------------------------------------------------------------------------
(* The inputs the checks draw from.                                        *)

\* how many instructions one run may execute before the check stops
\* following it
MaxSteps == 8

U16Samples == {0, 2, 28657, 65534, 65535}
U8Samples == {0, 1, 37, 255}
I8Samples == {-128, -1, 0, 127}
ArraySamples ==
    {[k \in 1 .. RhLen |-> 0],
     [k \in 1 .. RhLen |-> IF k = 1 THEN -128 ELSE IF k = RhLen THEN 127 ELSE k - 19]}

OperandSamples(type) ==
    CASE type = "u16" -> U16Samples
      [] type = "u8" -> U8Samples
      [] type = "i8" -> I8Samples
      [] type = "bool" -> {0, 1}
      [] type = "choice" -> ChoiceValues

RECURSIVE OperandTuples(_)
OperandTuples(layout) ==
    IF layout = <<>> THEN {<<>>}
    ELSE {<<v>> \o rest : v \in OperandSamples(Head(layout)),
                          rest \in OperandTuples(Tail(layout))}

\* instructions of every variant
SampleInstructions ==
    UNION {IF kind = "Ldirh" THEN {Ins(kind, a) : a \in ArraySamples}
           ELSE {Ins(kind, ops) : ops \in OperandTuples(LoadLayout(kind))}
           : kind \in KindSet}

\* start offsets, among them the last cells of the memory and of the
\* address space
SampleOffsets == {0, 1, 4660, 65496, 65497, 65531, 65532, 65533, 65534, 65535}

\* what the host can be made to decide during an instruction of this kind
NdChoices(kind) ==
    CASE kind = "GetChar" ->
            {[NdDefault EXCEPT !.raw_ok = a, !.key = k, !.read_err = e, !.disable_ok = d]
                : a \in BOOLEAN, k \in {48, 49}, e \in BOOLEAN, d \in BOOLEAN}
      [] kind = "GetLine" ->
            {[NdDefault EXCEPT !.stdin_ok = a, !.line = l]
                : a \in BOOLEAN, l \in {<<>>, <<104, 105, 10>>}}
      [] kind \in {"WriteChar", "ShowChoice"} ->
            {[NdDefault EXCEPT !.write_ok = a, !.ub = u] : a \in BOOLEAN, u \in {0, 5}}
      [] kind = "WriteLine" -> {[NdDefault EXCEPT !.ub = u] : u \in {0, 5}}
      [] kind \in {"AddF", "SubF", "MulF", "DivF", "ModF"} ->
            {[NdDefault EXCEPT !.f = f] : f \in {U64Zero, <<63, 240, 0, 0, 0, 0, 0, 0>>}}
      [] OTHER -> {NdDefault}

\* the two instructions that halt the machine
Halt == <<Ins("OmegaTheEndIsNear", <<>>), Ins("OmegaSkipToTheChase", <<>>)>>

\* instruction sequences that bring the machine into the states an
\* instruction is then tried in: the state after construction; the dot
\* pointer on a '.'; the flag set and two bytes on the stack; doom raised and
\* reg_b positive
Prefixes ==
    {<<>>,
     <<Ins("Pushi", <<Dot>>), Ins("Pop", <<28657>>), Ins("Ldidp", <<28657>>)>>,
     <<Ins("TgFlag", <<>>), Ins("Pushi", <<1>>), Ins("Pushi", <<2>>)>>,
     <<Ins("OmegaTheEndIsNear", <<>>), Ins("Pushi", <<0>>), Ins("Pushi", <<9>>),
       Ins("Popb", <<>>)>>}

Program(instructions) ==
    [k \in 1 .. Len(instructions) |-> InstructionItem(instructions[k])]

LoadCall(data, offset) == [data |-> data, offset |-> offset]

\* what the host loads before it runs the machine, as the calls of load it
\* makes: a prefix, one instruction and the halt; a prefix and a byte that is
\* no opcode; a jump to one of the last addresses, where a second call has
\* put an opcode byte (or nothing); the opcode of OmegaChoiceSet followed by
\* a byte that is no representation of a choice, and the halt
Scenarios ==
    {<<LoadCall(Program(p \o <<x>> \o Halt), 0)>> :
        p \in Prefixes, x \in SampleInstructions}
    \cup
    {<<LoadCall(Program(p) \o <<ByteDataItem(b)>>, 0)>> :
        p \in Prefixes, b \in {82, 200, 255}}
    \cup
    {<<LoadCall(Program(<<Ins("Pushi", <<255>>), Ins("Pushi", <<t>>),
                          Ins("Popep", <<>>)>>), 0)>>
       \o (IF b = 0 THEN <<>> ELSE <<LoadCall(<<ByteDataItem(b)>>, 65280 + t)>>) :
        t \in {252, 253, 254, 255}, b \in {0, 1, 20, 200}}
    \cup
    {<<LoadCall(<<ByteDataItem(Opcode("OmegaChoiceSet")), ByteDataItem(b)>>
                \o Program(Halt), 0)>> :
        b \in {5, 200}}

-----------------------------------------------------------------------------
(* The host: it constructs a machine, loads it, runs it, and may call      *)
(* fetch_instruction and run again once run has returned.                  *)
(*                                                                         *)
(* pc: "new" after construction and during the loads, "loop" at the top of *)
(* the loop of run, "execute" between fetch_instruction and                *)
(* execute_instruction, "returned" after run has returned, "reported"      *)
(* after the report of the machine was taken, "aborted" after a panic.     *)
(* `pre` is the machine before the last call or instruction, `call` the    *)
(* last call the host completed, with its arguments and its result.        *)

NoCall == [op |-> "new", args |-> <<>>, ret |-> <<>>]

Init ==
    /\ machine \in {DefaultMachine(debug) : debug \in BOOLEAN}
    /\ pre = machine
    /\ pc = "new"
    /\ instruction = None
    /\ io = <<>>
    /\ emitted = <<>>
    /\ fault = "none"
    /\ call = NoCall
    /\ steps = 0

\* the host calls load(data, offset): the first call of a scenario, or the
\* next one
HostLoad ==
    /\ pc = "new"
    /\ \E s \in Scenarios :
         LET k == IF call.op = "new" THEN 1 ELSE call.args[2] + 1
             r == load(machine, s[k].data, s[k].offset)
         IN  /\ call.op = "load" => call.args[1] = s
             /\ k <= Len(s)
             /\ machine' = r.machine
             /\ fault' = r.fault
             /\ pc' = IF r.fault = "none" THEN "new" ELSE "aborted"
             /\ call' = [op |-> "load", args |-> <<s, k>>, ret |-> r.offset]
    /\ pre' = machine
    /\ UNCHANGED <<instruction, io, emitted, steps>>

\* the host calls run(), for the first time
HostRun ==
    /\ pc = "new"
    /\ call.op = "load"
    /\ call.args[2] = Len(call.args[1])
    /\ pc' = "loop"
    /\ call' = [op |-> "run", args |-> <<>>, ret |-> <<>>]
    /\ UNCHANGED <<machine, pre, instruction, io, emitted, fault, steps>>

\* run: `while !self.halted`, then fetch_instruction and expect
RunFetch ==
    /\ pc = "loop"
    /\ run_continues(machine)
    /\ steps < MaxSteps
    /\ \E ub \in UBChoices :
         LET r == fetch_instruction(machine, ub)
             f == IF r.fault # "none" THEN r.fault ELSE expect(r.ret)
         IN  /\ machine' = r.machine
             /\ instruction' = r.ret
             /\ fault' = f
             /\ pc' = IF f = "none" THEN "execute" ELSE "aborted"
    /\ pre' = machine
    /\ emitted' = <<>>
    /\ UNCHANGED <<io, call, steps>>

\* run: execute_instruction of the instruction fetched
RunExecute ==
    /\ pc = "execute"
    /\ \E nd \in NdChoices(instruction.kind) :
         LET r == execute_instruction(machine, instruction, nd)
         IN  /\ machine' = r.machine
             /\ io' = io \o r.out
             /\ emitted' = r.out
             /\ fault' = r.fault
             /\ pc' = IF r.fault = "none" THEN "loop" ELSE "aborted"
    /\ pre' = machine
    /\ steps' = steps + 1
    /\ UNCHANGED <<instruction, call>>

\* run: the loop ends, run returns reg_a
RunReturn ==
    /\ pc = "loop"
    /\ ~run_continues(machine)
    /\ pc' = "returned"
    /\ call' = [call EXCEPT !.ret = run_result(machine)]
    /\ pre' = machine
    /\ UNCHANGED <<machine, instruction, io, emitted, fault, steps>>

\* after run has returned, the host calls fetch_instruction
HostFetch ==
    /\ pc = "returned"
    /\ \E ub \in UBChoices :
         LET r == fetch_instruction(machine, ub)
         IN  /\ machine' = r.machine
             /\ fault' = r.fault
             /\ call' = [op |-> "fetch_instruction", args |-> <<>>, ret |-> r.ret]
             /\ pc' = IF r.fault = "none" THEN "returned" ELSE "aborted"
    /\ pre' = machine
    /\ UNCHANGED <<instruction, io, emitted, steps>>

\* after run has returned, the host calls run() again
HostRunAgain ==
    /\ pc = "returned"
    /\ pc' = "loop"
    /\ call' = [op |-> "run again", args |-> <<>>, ret |-> <<>>]
    /\ pre' = machine
    /\ instruction' = None
    /\ emitted' = <<>>
    /\ UNCHANGED <<machine, io, fault, steps>>

\* after run has returned, main returns the machine and the runtime calls
\* its report
HostReport ==
    /\ pc = "returned"
    /\ pc' = "reported"
    /\ call' = [op |-> "report", args |-> <<>>, ret |-> report(machine)]
    /\ pre' = machine
    /\ UNCHANGED <<machine, instruction, io, emitted, fault, steps>>

Next ==
    \/ HostLoad
    \/ HostRun
    \/ RunFetch
    \/ RunExecute
    \/ RunReturn
    \/ HostFetch
    \/ HostRunAgain
    \/ HostReport

Spec == Init /\ [][Next]_vars

-----------------------------------------------------------------------------
(* The instruction codec on its own: the host writes one instruction with  *)
(* load_instruction and reads it back with fetch_instruction.              *)

\* the host calls load_instruction(x, &mut offset) with offset = o
CodecLoad ==
    /\ pc = "new"
    /\ call.op = "new"
    /\ \E x \in SampleInstructions, o \in SampleOffsets :
         LET r == load_instruction(machine, x, o)
         IN  /\ machine' = r.machine
             /\ fault' = r.fault
             /\ pc' = IF r.fault = "none" THEN "new" ELSE "aborted"
             /\ call' = [op |-> "load_instruction", args |-> <<x, o>>, ret |-> r.offset]
    /\ pre' = machine
    /\ UNCHANGED <<instruction, io, emitted, steps>>

\* the host sets reg_ep to o and calls fetch_instruction
CodecFetch ==
    /\ pc = "new"
    /\ call.op = "load_instruction"
    /\ \E ub \in UBChoices :
         LET m == [machine EXCEPT !.reg_ep = call.args[2]]
             r == fetch_instruction(m, ub)
         IN  /\ machine' = r.machine
             /\ fault' = r.fault
             /\ pc' = IF r.fault = "none" THEN "returned" ELSE "aborted"
             /\ call' = [op |-> "fetch_instruction",
                         args |-> <<call.args[1], call.args[2], call.ret>>,
                         ret |-> r.ret]
             /\ pre' = m
    /\ UNCHANGED <<instruction, io, emitted, steps>>

\* byte sequences the host writes as raw data: an opcode and operand bytes,
\* among them bool operands other than 0 and 1, a byte that is no
\* representation of a choice, and operands in their canonical form
CodecByteSamples ==
    {<<Opcode("OmegaSetSentience"), b>> : b \in {0, 1, 2, 255}}
    \cup {<<Opcode("OmegaSetPaperclipProduction"), b>> : b \in {1, 128}}
    \cup {<<Opcode("OmegaChoiceSet"), b>> : b \in {4, 5}}
    \cup {<<Opcode("Setirh"), 3, 128>>, <<Opcode("Ldar"), 18, 52>>}

\* the host calls load(&[Data(bytes)], o)
CodecLoadBytes ==
    /\ pc = "new"
    /\ call.op = "new"
    /\ \E bytes \in CodecByteSamples, o \in {0, 4660} :
         LET r == load(machine, <<DataItem(bytes)>>, o)
         IN  /\ machine' = r.machine
             /\ fault' = r.fault
             /\ pc' = IF r.fault = "none" THEN "new" ELSE "aborted"
             /\ call' = [op |-> "load", args |-> <<bytes, o>>, ret |-> r.offset]
    /\ pre' = machine
    /\ UNCHANGED <<instruction, io, emitted, steps>>

\* the host sets reg_ep to o, where it has put the bytes, and calls
\* fetch_instruction
CodecFetchBytes ==
    /\ pc = "new"
    /\ call.op = "load"
    /\ \E ub \in UBChoices :
         LET m == [machine EXCEPT !.reg_ep = call.args[2]]
             r == fetch_instruction(m, ub)
         IN  /\ machine' = r.machine
             /\ fault' = r.fault
             /\ pc' = IF r.fault = "none" THEN "returned" ELSE "aborted"
             /\ call' = [op |-> "fetch_instruction", args |-> <<>>, ret |-> r.ret]
             /\ pre' = m
    /\ UNCHANGED <<instruction, io, emitted, steps>>

\* the host calls load_instruction(x, &mut offset) with the instruction x
\* that fetch_instruction has returned and the offset it was fetched from
CodecLoadBack ==
    /\ pc = "returned"
    /\ call.op = "fetch_instruction"
    /\ call.ret # None
    /\ LET r == load_instruction(machine, call.ret, pre.reg_ep)
       IN  /\ machine' = r.machine
           /\ fault' = r.fault
           /\ pc' = IF r.fault = "none" THEN "loaded back" ELSE "aborted"
           /\ call' = [op |-> "load_instruction back",
                       args |-> <<call.ret, pre.reg_ep>>, ret |-> r.offset]
    /\ pre' = machine
    /\ UNCHANGED <<instruction, io, emitted, steps>>

NextCodec ==
    \/ CodecLoad
    \/ CodecFetch
    \/ CodecLoadBytes
    \/ CodecFetchBytes
    \/ CodecLoadBack

SpecCodec == Init /\ [][NextCodec]_vars

-----------------------------------------------------------------------------
(* The stack on its own: the host calls the operations of machine.stack.   *)

\* how many stack operations the host calls
MaxOps == 4

\* the lengths the host allocates and frees, and the slices it pushes
AllocSamples == {1, StackCapacity - 1, StackCapacity + 1}
DeallocSamples == {1, 2, StackCapacity}
SliceSamples == {<<>>, <<1, 2>>}

StackCall(op, args, r, ret) ==
    /\ steps < MaxOps
    /\ machine' = [machine EXCEPT !.stack = r.stack]
    /\ call' = [op |-> op, args |-> args, ret |-> ret]
    /\ pre' = machine
    /\ steps' = steps + 1
    /\ UNCHANGED <<pc, instruction, io, emitted, fault>>

StackPushByte ==
    \E byte \in {7, 255} :
        LET r == push_byte(machine.stack, byte)
        IN  StackCall("push_byte", <<byte>>, r, r.ok)

StackPopByte ==
    LET r == pop_byte(machine.stack)
    IN  StackCall("pop_byte", <<>>, r, [some |-> r.some, val |-> r.val])

StackPopU16 ==
    LET r == pop_u16(machine.stack)
    IN  StackCall("pop_u16", <<>>, r, [some |-> r.some, val |-> r.bytes])

StackPopU32 ==
    LET r == pop_u32(machine.stack)
    IN  StackCall("pop_u32", <<>>, r, [some |-> r.some, val |-> r.bytes])

StackPopU64 ==
    LET r == pop_u64(machine.stack)
    IN  StackCall("pop_u64", <<>>, r, [some |-> r.some, val |-> r.bytes])

StackPushBytes ==
    \E bytes \in SliceSamples :
        LET r == push_bytes(machine.stack, bytes)
        IN  StackCall("push_bytes", <<bytes>>, r, r.ok)

StackAlloc ==
    \E bytes \in AllocSamples :
        LET r == alloc(machine.stack, bytes)
        IN  StackCall("alloc", <<bytes>>, r, r.ok)

StackDealloc ==
    \E bytes \in DeallocSamples :
        LET r == dealloc(machine.stack, bytes)
        IN  StackCall("dealloc", <<bytes>>, r, r.ok)

NextStack ==
    \/ StackPushByte
    \/ StackPopByte
    \/ StackPopU16
    \/ StackPopU32
    \/ StackPopU64
    \/ StackPushBytes
    \/ StackAlloc
    \/ StackDealloc

SpecStack == Init /\ [][NextStack]_vars

-----------------------------------------------------------------------------
(* One instruction on its own: the host sets the registers and the stack   *)
(* of a machine (its fields are public) and calls execute_instruction.     *)

\* a stack holding these bytes, the last on top
StackOf(bytes) == [DefaultStack EXCEPT !.vec = bytes]

\* stacks: empty, one byte, nine bytes, one byte short of full
StackSamples ==
    {StackOf(<<>>), StackOf(<<7>>), StackOf(<<1, 2, 3, 4, 5, 6, 7, 8, 9>>),
     StackOf([k \in 1 .. StackCapacity - 1 |-> 0])}

\* values of polymorphic_desires: 0, 2, 2^24 - 1, 2^64 - 2, 2^64 - 1
DesireSamples ==
    {U64Zero,
     <<0, 0, 0, 0, 0, 0, 0, 2>>,
     <<0, 0, 0, 0, 0, 255, 255, 255>>,
     <<255, 255, 255, 255, 255, 255, 255, 254>>,
     U64Max}

\* machines that differ in the registers of the arithmetic
ArithMachines ==
    {[DefaultMachine(FALSE) EXCEPT !.reg_L = l, !.reg_b = b, !.flag = f] :
        l \in {0, 1, 2, 255, 256, 32767, 32768, 65535},
        b \in {-32768, -32767, -1, 0, 1, 2, 256, 32767},
        f \in BOOLEAN}

\* machines that differ in the stack and in what the jumps look at
StackMachines ==
    {[DefaultMachine(d) EXCEPT !.stack = st, !.reg_b = b, !.reg_a = a, !.flag = f] :
        d \in BOOLEAN, st \in StackSamples, b \in {-1, 0, 9}, a \in {0, 3},
        f \in BOOLEAN}

\* machines that differ in reg_Omega
OmegaMachines ==
    {[DefaultMachine(FALSE) EXCEPT !.reg_Omega.polymorphic_desires = pd,
                                   !.reg_Omega.is_sentient = s,
                                   !.reg_a = a, !.flag = f] :
        pd \in DesireSamples, s \in BOOLEAN, a \in {0, 1, 255}, f \in BOOLEAN}

\* machines that differ in the string register, the stack and the memory:
\* reg_ss empty, "hi" and full; the stack empty, of one byte and full; the
\* memory empty, and with a '.' under the dot pointer and the byte 200 at 2
RegisterMachines ==
    {[DefaultMachine(FALSE) EXCEPT !.reg_ss.vec = s, !.stack = st, !.memory = mem,
                                   !.reg_a = 3, !.flag = f] :
        s \in {<<>>, <<104, 105>>, [k \in 1 .. StringCapacity |-> 97]},
        st \in {StackOf(<<>>), StackOf(<<7>>), StackOf([k \in 1 .. StackCapacity |-> 0])},
        mem \in {EmptyMemory, (0 :> Dot) @@ (2 :> 200)},
        f \in BOOLEAN}

\* machines with the dot pointer on a '.' that differ in reg_ch: 'A', U+00E9,
\* U+20AC and U+1F600, whose UTF-8 encodings take 1, 2, 3 and 4 bytes
CharMachines ==
    {[DefaultMachine(FALSE) EXCEPT !.memory = (0 :> Dot), !.reg_ch = CharOf(c),
                                   !.reg_Omega.should_make_infinite_paperclips = p] :
        c \in {65, 233, 8364, 128512}, p \in BOOLEAN}

SampleMachines ==
    ArithMachines \cup StackMachines \cup OmegaMachines \cup RegisterMachines
    \cup CharMachines

InitExecute ==
    /\ machine \in SampleMachines
    /\ pre = machine
    /\ pc = "new"
    /\ instruction = None
    /\ io = <<>>
    /\ emitted = <<>>
    /\ fault = "none"
    /\ call = NoCall
    /\ steps = 0

\* the host calls execute_instruction(x)
HostExecute ==
    /\ pc = "new"
    /\ \E x \in SampleInstructions :
         \E nd \in NdChoices(x.kind) :
            LET r == execute_instruction(machine, x, nd)
            IN  /\ machine' = r.machine
                /\ instruction' = x
                /\ io' = io \o r.out
                /\ emitted' = r.out
                /\ fault' = r.fault
                /\ pc' = IF r.fault = "none" THEN "loop" ELSE "aborted"
    /\ pre' = machine
    /\ call' = [op |-> "execute_instruction", args |-> <<>>, ret |-> <<>>]
    /\ steps' = steps + 1

NextExecute == HostExecute

SpecExecute == InitExecute /\ [][NextExecute]_vars

-----------------------------------------------------------------------------
(* The example programs of the repository, loaded at offset 0 into a       *)
(* default machine and run to the end, as their main functions do.         *)

\* b"Hello, world!\n\0"
HelloText ==
    <<72, 101, 108, 108, 111, 44, 32, 119, 111, 114, 108, 100, 33, 10, 0>>

\* examples/helloworld.rs: the instructions of the assembly
HelloInstructions ==
    <<Ins("Pushi", <<Dot>>),
      Ins("Pop", <<28657>>),
      Ins("Ldidp", <<28657>>),
      Ins("WriteLine", <<13>>),
      Ins("OmegaTheEndIsNear", <<>>),
      Ins("OmegaSkipToTheChase", <<>>)>>

\* examples/99_bottles_of_beer.rs: the texts of the assembly, each with its
\* NUL: wall, bottles, take, wall end, no more, No more, store
BottlesTexts ==
    <<<<98, 111, 116, 116, 108, 101, 115, 32, 111, 102, 32, 98, 101, 101,
       114, 32, 111, 110, 32, 116, 104, 101, 32, 119, 97, 108, 108, 44, 32,
       0>>,
      <<98, 111, 116, 116, 108, 101, 115, 32, 111, 102, 32, 98, 101, 101,
       114, 46, 10, 0>>,
      <<84, 97, 107, 101, 32, 111, 110, 101, 32, 100, 111, 119, 110, 32, 97,
       110, 100, 32, 112, 97, 115, 115, 32, 105, 116, 32, 97, 114, 111, 117,
       110, 100, 44, 32, 0>>,
      <<98, 111, 116, 116, 108, 101, 115, 32, 111, 102, 32, 98, 101, 101,
       114, 32, 111, 110, 32, 116, 104, 101, 32, 119, 97, 108, 108, 46, 10,
       10, 0>>,
      <<110, 111, 32, 109, 111, 114, 101, 32, 0>>,
      <<78, 111, 32, 109, 111, 114, 101, 32, 0>>,
      <<71, 111, 32, 116, 111, 32, 116, 104, 101, 32, 115, 116, 111, 114,
       101, 32, 97, 110, 100, 32, 98, 117, 121, 32, 115, 111, 109, 101, 32,
       109, 111, 114, 101, 44, 32, 0>>>>

\* examples/99_bottles_of_beer.rs: the instructions of the assembly (its
\* prefixes are not checked and do not place anything)
BottlesInstructions ==
    <<Ins("Pushi", <<Dot>>),
      Ins("Pop", <<28657>>),
      Ins("Ldidp", <<28657>>),
      Ins("Pushi", <<0>>),
      Ins("Pushi", <<99>>),
      Ins("PopL", <<>>),
      Ins("Pushi", <<0>>),
      Ins("Pushi", <<0>>),
      Ins("Pushi", <<0>>),
      Ins("Pushi", <<99>>),
      Ins("Popnum", <<>>),
      Ins("Pushi", <<0>>),
      Ins("Pushi", <<1>>),
      Ins("Popb", <<>>),
      Ins("OmegaSetPaperclipProduction", <<1>>),
      Ins("WriteLine", <<110>>),
      Ins("WriteLine", <<140>>),
      Ins("OmegaSetPaperclipProduction", <<0>>),
      Ins("WriteLine", <<158>>),
      Ins("OmegaSetPaperclipProduction", <<1>>),
      Ins("CmpLB", <<>>),
      Ins("Pushi", <<0>>),
      Ins("Pushi", <<71>>),
      Ins("Zpopep", <<>>),
      Ins("StackDealloc", <<2>>),
      Ins("Pushi", <<0>>),
      Ins("Pushi", <<1>>),
      Ins("Popb", <<>>),
      Ins("SubBL", <<>>),
      Ins("Pushi", <<0>>),
      Ins("Pushi", <<0>>),
      Ins("PushL", <<>>),
      Ins("Popnum", <<>>),
      Ins("WriteLine", <<193>>),
      Ins("Pushi", <<0>>),
      Ins("Pushi", <<29>>),
      Ins("Popep", <<>>),
      Ins("OmegaSetPaperclipProduction", <<0>>),
      Ins("WriteLine", <<224>>),
      Ins("WriteLine", <<193>>),
      Ins("WriteLine", <<233>>),
      Ins("WriteLine", <<110>>),
      Ins("WriteLine", <<224>>),
      Ins("WriteLine", <<140>>),
      Ins("WriteLine", <<242>>),
      Ins("Pushi", <<0>>),
      Ins("Pushi", <<0>>),
      Ins("Pushi", <<0>>),
      Ins("Pushi", <<99>>),
      Ins("Popnum", <<>>),
      Ins("OmegaSetPaperclipProduction", <<1>>),
      Ins("WriteLine", <<193>>),
      Ins("OmegaTheEndIsNear", <<>>),
      Ins("OmegaSkipToTheChase", <<>>)>>

\* the programs, as the arrays esoteric_assembly! builds
Examples ==
    {[name |-> "helloworld",
      data |-> Program(HelloInstructions) \o <<DataItem(HelloText)>>],
     [name |-> "99_bottles_of_beer",
      data |-> Program(BottlesInstructions) \o
               [k \in 1 .. Len(BottlesTexts) |-> DataItem(BottlesTexts[k])]]}

\* how many instructions the run of an example may execute before the check
\* stops following it
MaxExampleSteps == 2500

\* Machine::default().  The result of the last call is a number throughout,
\* 0 before the first call has returned.
InitExamples ==
    /\ machine \in {DefaultMachine(debug) : debug \in BOOLEAN}
    /\ pre = machine
    /\ pc = "new"
    /\ instruction = None
    /\ io = <<>>
    /\ emitted = <<>>
    /\ fault = "none"
    /\ call = [NoCall EXCEPT !.ret = 0]
    /\ steps = 0

\* machine.load(&asm, 0)
ExampleLoad ==
    /\ pc = "new"
    /\ call.op = "new"
    /\ \E e \in Examples :
         LET r == load(machine, e.data, 0)
         IN  /\ machine' = r.machine
             /\ fault' = r.fault
             /\ pc' = IF r.fault = "none" THEN "new" ELSE "aborted"
             /\ call' = [op |-> "load", args |-> <<e.name>>, ret |-> r.offset]
    /\ pre' = machine
    /\ UNCHANGED <<instruction, io, emitted, steps>>

\* machine.run()
ExampleRun ==
    /\ pc = "new"
    /\ call.op = "load"
    /\ pc' = "loop"
    /\ call' = [call EXCEPT !.op = "run"]
    /\ UNCHANGED <<machine, pre, instruction, io, emitted, fault, steps>>

\* run: `while !self.halted`, then fetch_instruction and expect
ExampleFetch ==
    /\ pc = "loop"
    /\ run_continues(machine)
    /\ steps < MaxExampleSteps
    /\ \E ub \in UBChoices :
         LET r == fetch_instruction(machine, ub)
             f == IF r.fault # "none" THEN r.fault ELSE expect(r.ret)
         IN  /\ machine' = r.machine
             /\ instruction' = r.ret
             /\ fault' = f
             /\ pc' = IF f = "none" THEN "execute" ELSE "aborted"
    /\ pre' = machine
    /\ emitted' = <<>>
    /\ UNCHANGED <<io, call, steps>>

\* the steps of main once the program is loaded
ExampleSteps ==
    \/ ExampleRun
    \/ ExampleFetch
    \/ RunExecute
    \/ RunReturn

NextExamples ==
    \/ ExampleLoad
    \/ ExampleSteps

\* the states in which main, the program loaded, has a next step: run is
\* about to be called, an instruction is fetched and waits to be executed,
\* or the loop of run is at its top (to leave when the machine has halted,
\* to fetch otherwise)
CanStep ==
    \/ pc = "new" /\ call.op = "load"
    \/ pc = "execute"
    \/ pc = "loop" /\ (~run_continues(machine) \/ steps < MaxExampleSteps)

\* main moves on: every step of ExampleSteps changes pc
Advance == CanStep /\ pc' \in {"loop", "execute", "returned", "aborted"} \ {pc}

\* main is sequential code: once it has loaded the program it takes its next
\* step as long as it has one
SpecExamples == InitExamples /\ [][NextExamples]_vars /\ WF_pc(Advance)

-----------------------------------------------------------------------------
(* load on its own: the host calls load with a sequence of items and a     *)
(* start offset, and may call it again.                                    *)

\* how many times the host calls load
MaxLoads == 2

\* the sequences of items the host loads: nothing; an instruction, a byte
\* and a block; a block; a byte; an instruction with two operands; an empty
\* block, a byte and an instruction without operands
LoadSamples ==
    {<<>>,
     <<InstructionItem(Ins("Pushi", <<7>>)), ByteDataItem(9), DataItem(<<1, 2, 3>>)>>,
     <<DataItem(<<1, 2>>)>>,
     <<ByteDataItem(5)>>,
     <<InstructionItem(Ins("Setrh", <<1, 28657>>))>>,
     <<DataItem(<<>>), ByteDataItem(200), InstructionItem(Ins("Nop", <<>>))>>}

\* the offsets it loads them at
LoadOffsets == {0, 4660, 65531, 65533, 65534, 65535}

\* machine.load(&data, offset)
HostLoadItems ==
    /\ pc = "new"
    /\ steps < MaxLoads
    /\ \E data \in LoadSamples, offset \in LoadOffsets :
         LET r == load(machine, data, offset)
         IN  /\ machine' = r.machine
             /\ fault' = r.fault
             /\ pc' = IF r.fault = "none" THEN "new" ELSE "aborted"
             /\ call' = [op |-> "load", args |-> <<data, offset>>, ret |-> r.offset]
    /\ pre' = machine
    /\ steps' = steps + 1
    /\ UNCHANGED <<instruction, io, emitted>>

NextLoad == HostLoadItems

SpecLoad == Init /\ [][NextLoad]_vars

-----------------------------------------------------------------------------
(* utils/primes.rs on its own: the host asks whether a u16 is on the       *)
(* allow-list of the dot pointer.                                          *)

\* is_fib_prime_or_semiprime_u16(n), for any u16
HostIsFibPrimeOrSemiprime ==
    /\ pc = "new"
    /\ call.op = "new"
    /\ \E n \in 0 .. U16Range - 1 :
         call' = [op |-> "is_fib_prime_or_semiprime_u16", args |-> <<n>>,
                  ret |-> is_fib_prime_or_semiprime_u16(n)]
    /\ pc' = "returned"
    /\ UNCHANGED <<machine, pre, instruction, io, emitted, fault, steps>>

NextPrimes == HostIsFibPrimeOrSemiprime

SpecPrimes == Init /\ [][NextPrimes]_vars

-----------------------------------------------------------------------------
(* The string register on its own: the host calls the operations of        *)
(* machine.reg_ss and executes the instructions that work on it.           *)

\* how many operations on the string register the host calls
MaxStringOps == 3

\* the slices it pushes: nothing, "hi", and 254 and 255 times 'a'
StringSlices ==
    {<<>>, <<104, 105>>,
     [k \in 1 .. StringCapacity - 1 |-> 97], [k \in 1 .. StringCapacity |-> 97]}

\* the indices it sets
StringIndices == {0, 1, 2, StringCapacity - 1, StringCapacity}

\* the instructions on the string register it executes
StringInstructions ==
    {Ins("Setss", <<a, i>>) : a \in {0, 65535}, i \in {0, 2, 255}}
    \cup {Ins("Setiss", <<66, i>>) : i \in {0, 2, 255}}
    \cup {Ins("Movass", <<1>>), Ins("Ldss", <<0>>), Ins("Clss", <<>>),
          Ins("Pushss", <<>>), Ins("Popss", <<>>), Ins("Lenssa", <<>>)}

StringCall(op, args, css, ret) ==
    /\ pc = "new"
    /\ steps < MaxStringOps
    /\ machine' = [machine EXCEPT !.reg_ss = css]
    /\ call' = [op |-> op, args |-> args, ret |-> ret]
    /\ pre' = machine
    /\ steps' = steps + 1
    /\ UNCHANGED <<pc, instruction, io, emitted, fault>>

StringPushByte ==
    \E byte \in {65} :
        LET r == css_push_byte(machine.reg_ss, byte)
        IN  StringCall("push_byte", <<byte>>, r.css, r.ok)

StringPushBytes ==
    \E bytes \in StringSlices :
        LET r == css_push_bytes(machine.reg_ss, bytes)
        IN  StringCall("push_bytes", <<bytes>>, r.css, r.ok)

StringPopByte ==
    LET r == css_pop_byte(machine.reg_ss)
    IN  StringCall("pop_byte", <<>>, r.css, [some |-> r.some, val |-> r.val])

StringClear == StringCall("clear", <<>>, css_clear(machine.reg_ss), TRUE)

StringSet ==
    \E index \in StringIndices, value \in {66} :
        LET r == css_set(machine.reg_ss, index, value)
        IN  StringCall("set", <<index, value>>, r.css, r.ok)

\* machine.execute_instruction(x) for an instruction on the string register
StringExecute ==
    /\ pc = "new"
    /\ steps < MaxStringOps
    /\ \E x \in StringInstructions : \E nd \in NdChoices(x.kind) :
         LET r == execute_instruction(machine, x, nd)
         IN  /\ machine' = r.machine
             /\ fault' = r.fault
             /\ pc' = IF r.fault = "none" THEN "new" ELSE "aborted"
             /\ instruction' = x
             /\ call' = [op |-> "execute_instruction", args |-> <<x>>, ret |-> TRUE]
    /\ pre' = machine
    /\ steps' = steps + 1
    /\ UNCHANGED <<io, emitted>>

NextString ==
    \/ StringPushByte
    \/ StringPushBytes
    \/ StringPopByte
    \/ StringClear
    \/ StringSet
    \/ StringExecute

SpecString == Init /\ [][NextString]_vars

-----------------------------------------------------------------------------
(* What the properties below speak of.                                     *)

\* the state right after execute_instruction: `instruction` is the one
\* executed, `pre` the machine before it, `emitted` its input and output
Executed == pc \in {"loop", "aborted"} /\ instruction # None

\* the state right after the fetch_instruction of run: `pre` is the machine
\* before it, `instruction` what it returned
Fetched ==
    /\ call.op \in {"run", "run again"}
    /\ \/ pc = "execute"
       \/ pc = "aborted" /\ instruction = None

\* the number of bytes of an operand, and of an instruction with its opcode
OperandWidth(type) == IF type = "u16" THEN 2 ELSE 1

RECURSIVE LayoutWidth(_)
LayoutWidth(layout) ==
    IF layout = <<>> THEN 0
    ELSE OperandWidth(Head(layout)) + LayoutWidth(Tail(layout))

EncodedSize(kind) == 1 + LayoutWidth(FetchLayout(kind))

\* the instructions that look for the '.' under the dot pointer
GatedKinds ==
    {"GetLine", "WriteChar", "WriteLiness", "WriteLine", "DebugMachineState",
     "DebugMachineStateCompact", "DebugMemoryRegion", "DebugStackRegion",
     "ShowChoice"}

-----------------------------------------------------------------------------
(* Properties of the instruction codec (SpecCodec).                        *)

\* C1: for every instruction x and every offset o in 0..65535,
\* load_instruction(x, o) writes x and moves the offset to e, and
\* fetch_instruction with reg_ep = o then returns exactly x and leaves
\* reg_ep = e.
C1_RoundTrip ==
    /\ call.op = "load_instruction" => fault = "none"
    /\ (call.op = "fetch_instruction" /\ call.args # <<>>) =>
          /\ fault = "none"
          /\ call.ret = call.args[1]
          /\ machine.reg_ep = call.args[3]

-----------------------------------------------------------------------------
(* Properties of a run (Spec).                                             *)

\* C2: the flag is sticky: an instruction that finds the flag true leaves it
\* true, unless it is ClFlag or TgFlag.
C2_FlagSticky ==
    (Executed /\ pre.flag /\ ~machine.flag) =>
        instruction.kind \in {"ClFlag", "TgFlag"}

\* C3: halted turns true only when OmegaSkipToTheChase is executed with the
\* feeling of impending doom already raised; OmegaTheEndIsNear does not halt;
\* OmegaSkipToTheChase without the doom leaves the whole machine as it was.
C3_HaltOnlyBySkipAfterDoom ==
    /\ (~pre.halted /\ machine.halted) =>
          /\ Executed
          /\ instruction.kind = "OmegaSkipToTheChase"
          /\ pre.reg_Omega.feeling_of_impending_doom
    /\ (Executed /\ instruction.kind = "OmegaTheEndIsNear") => ~machine.halted
    /\ (Executed /\ instruction.kind = "OmegaSkipToTheChase"
          /\ ~pre.reg_Omega.feeling_of_impending_doom) =>
          /\ machine = pre
          /\ ~machine.halted
          /\ fault = "none"

\* C3 happens: an OmegaSkipToTheChase that found the doom raised has halted
\* the machine.
C3_Witness ==
    /\ Executed
    /\ instruction.kind = "OmegaSkipToTheChase"
    /\ pre.reg_Omega.feeling_of_impending_doom
    /\ ~pre.halted
    /\ machine.halted

\* C4: halted never turns false again; fetch_instruction on a halted machine
\* returns None and changes nothing; run() on a halted machine fetches and
\* executes nothing.
C4_HaltedTerminal ==
    /\ pre.halted => machine.halted
    /\ (call.op = "fetch_instruction" /\ pre.halted) =>
          /\ call.ret = None
          /\ machine = pre
          /\ fault = "none"
    /\ call.op = "run again" =>
          /\ pc \in {"loop", "returned"}
          /\ instruction = None
          /\ machine = pre
          /\ emitted = <<>>

\* C4 happens: the host has called fetch_instruction on a halted machine.
C4_Witness ==
    /\ call.op = "fetch_instruction"
    /\ pre.halted
    /\ call.ret = None

\* C5: on a machine that is not halted, fetch_instruction returns an
\* instruction exactly when the byte at reg_ep is an opcode; on any other byte
\* it returns None and run aborts with the invalid opcode fault, having
\* changed nothing but reg_ep.
C5_FetchIffOpcode ==
    (Fetched /\ ~pre.halted) =>
        LET kind == from_repr(mem_get(pre.memory, pre.reg_ep))
        IN  IF kind # "None"
            THEN /\ fault = "none"
                 /\ instruction # None
                 /\ instruction.kind = kind
            ELSE /\ instruction = None
                 /\ fault = "invalid_opcode"
                 /\ pc = "aborted"
                 /\ machine = [pre EXCEPT !.reg_ep = (pre.reg_ep + 1) % U16Range]

\* C6: an instruction that looks for the '.' and does not find it reads and
\* writes nothing, sets the flag and leaves the rest of the machine as it was.
C6_DotGating ==
    (Executed /\ instruction.kind \in GatedKinds
        /\ mem_get(pre.memory, pre.reg_dp) # Dot) =>
        /\ emitted = <<>>
        /\ fault = "none"
        /\ machine = [pre EXCEPT !.flag = TRUE]

\* C6 happens: a WriteLine without the '.' under the dot pointer has raised
\* the flag.
C6_Witness ==
    /\ Executed
    /\ instruction.kind = "WriteLine"
    /\ mem_get(pre.memory, pre.reg_dp) # Dot
    /\ ~pre.flag
    /\ machine.flag

\* C7: Ldidp(a) with a outside the allow-list leaves reg_dp and sets the
\* flag; with a in the allow-list it sets reg_dp = a and leaves the flag.
C7_LdidpValidation ==
    (Executed /\ instruction.kind = "Ldidp") =>
        /\ fault = "none"
        /\ IF is_fib_prime_or_semiprime_u16(instruction.ops[1])
           THEN machine = [pre EXCEPT !.reg_dp = instruction.ops[1]]
           ELSE machine = [pre EXCEPT !.flag = TRUE]

\* C8: Ldar(a), Push(a) and Pop(a) on a stack that is not empty complete for
\* every address a in 0..65535 without an access out of range.
C8_EveryAddressInRange ==
    (Executed /\ instruction.kind \in {"Ldar", "Push", "Pop"}
        /\ (instruction.kind = "Pop" => used_space(pre.stack) > 0)) =>
        fault = "none"

\* C9: the fetch of an instruction of n bytes at reg_ep = p accesses nothing
\* out of range and leaves reg_ep = (p + n) mod 65536, at p = 65535 too.
C9_FetchWraps ==
    (Fetched /\ ~pre.halted) =>
        /\ fault # "index_out_of_bounds"
        /\ instruction # None =>
              machine.reg_ep = (pre.reg_ep + EncodedSize(instruction.kind)) % U16Range

-----------------------------------------------------------------------------
(* Properties of the stack (SpecStack).                                    *)

\* C10: the used space never exceeds the total space, the total space stays
\* the capacity given at construction, and a push_byte on a full stack
\* returns StackOverflow and leaves the stack as it was, while a push_byte
\* on a stack with space left succeeds.
C10_StackCapacity ==
    /\ used_space(machine.stack) <= total_space(machine.stack)
    /\ total_space(machine.stack) = StackCapacity
    /\ call.op = "push_byte" =>
          IF used_space(pre.stack) = total_space(pre.stack)
          THEN /\ call.ret = FALSE
               /\ machine.stack = pre.stack
          ELSE /\ call.ret = TRUE
               /\ machine.stack.vec = Append(pre.stack.vec, call.args[1])

\* C10 happens: a push_byte on a full stack has returned StackOverflow, after
\* a push_byte that filled the stack.
C10_Witness ==
    /\ call.op = "push_byte"
    /\ call.ret = FALSE
    /\ used_space(pre.stack) = StackCapacity
    /\ used_space(machine.stack) = StackCapacity
    /\ steps >= 3

\* the instructions that push or drop several bytes at once
BulkKinds ==
    {"StackAlloc", "StackDealloc", "Pushb", "PushL", "Pushf", "Pushch",
     "Pushnum", "OmegaPushPolymorphicDesires"}

\* the bytes a bulk push hands to push_bytes, most significant first
PushedBytes(m, kind) ==
    CASE kind = "Pushb" ->
            LET u == IF m.reg_b < 0 THEN m.reg_b + U16Range ELSE m.reg_b
            IN  <<u \div U8Range, u % U8Range>>
      [] kind = "PushL" -> <<m.reg_L \div U8Range, m.reg_L % U8Range>>
      [] kind = "Pushf" -> m.reg_f
      [] kind = "Pushch" -> m.reg_ch
      [] kind = "Pushnum" -> i32_to_be_bytes(m.num_reg)
      [] kind = "OmegaPushPolymorphicDesires" -> m.reg_Omega.polymorphic_desires

\* the machine with the bytes of its stack replaced
WithStackBytes(m, bytes) == [m EXCEPT !.stack.vec = bytes]

PopWidth(kind) ==
    CASE kind \in {"Popb", "PopL"} \cup JumpKinds -> 2
      [] kind \in {"Popch", "Popnum"} -> 4
      [] kind = "Popf" -> 8

\* the condition under which a jump of this kind pops its target
JumpCondition(m, kind) ==
    CASE kind = "Popep" -> TRUE
      [] kind = "Zpopep" -> m.reg_b = 0
      [] kind = "Ppopep" -> m.reg_b > 0
      [] kind = "Npopep" -> m.reg_b < 0
      [] kind = "Fpopep" -> m.flag
      [] kind = "Zapopep" -> m.reg_a = 0
      [] kind = "Dpopep" -> m.debug_mode

\* the last instruction was a register pop that went to the stack
Popped ==
    /\ Executed
    /\ instruction.kind \in {"Popb", "PopL", "Popch", "Popnum", "Popf"} \cup JumpKinds
    /\ instruction.kind \in JumpKinds => JumpCondition(pre, instruction.kind)

\* C12: a register pop of 2, 4 or 8 bytes on a stack that holds fewer sets
\* the flag and leaves the machine otherwise exactly as it was: the stack
\* still holds all its bytes and the target register is unchanged.
C12_PopUnderflowAtomic ==
    (Popped /\ Len(pre.stack.vec) < PopWidth(instruction.kind)) =>
        machine = [pre EXCEPT !.flag = TRUE]

\* C13: a conditional jump (Zpopep: reg_b = 0, Ppopep: reg_b > 0, Npopep:
\* reg_b < 0, Fpopep: flag, Zapopep: reg_a = 0, Dpopep: debug_mode) whose
\* condition is false changes nothing, so that reg_ep stays where the fetch
\* left it, past the instruction; with a true condition and at least 2 bytes
\* on the stack it removes the top 2 bytes and sets reg_ep = 256 * hi + lo, lo
\* the top byte and hi the byte below it, the flag as it was; with a true
\* condition and fewer than 2 bytes it sets the flag and does not redirect
\* reg_ep.
C13_ConditionalJumps ==
    (Executed /\ instruction.kind \in JumpKinds \ {"Popep"}) =>
        LET old == pre.stack.vec
            n == Len(old)
        IN  /\ fault = "none"
            /\ IF ~JumpCondition(pre, instruction.kind) THEN machine = pre
               ELSE IF n >= 2
               THEN machine = [pre EXCEPT !.stack.vec = SubSeq(old, 1, n - 2),
                                          !.reg_ep = 256 * old[n - 1] + old[n]]
               ELSE machine.flag /\ machine.reg_ep = pre.reg_ep

\* Npopep with reg_b = -1 and the bytes 8, 9 on top: a jump to 2057
C13_Witness ==
    /\ Executed
    /\ instruction.kind = "Npopep"
    /\ pre.reg_b < 0
    /\ Len(pre.stack.vec) = 9
    /\ machine.reg_ep = 2057
    /\ Len(machine.stack.vec) = 7

ExactBL(kind, l, u) ==
    CASE kind = "AddBL" -> [residue |-> (l + u) % 65536, outside |-> l + u > 65535]
      [] kind = "SubBL" -> [residue |-> (l - u) % 65536, outside |-> l - u < 0]
      [] kind = "MulBL" ->
            IF l >= 256 /\ u >= 256
            THEN [residue |-> ((((l \div 256) * u) % 256) * 256 + (l % 256) * u) % 65536,
                  outside |-> TRUE]
            ELSE [residue |-> (l * u) % 65536, outside |-> l * u > 65535]

\* C15: AddBL, SubBL and MulBL set reg_L = (reg_L op u) mod 65536, u being
\* reg_b read as an unsigned 16-bit number, and set the flag whenever the
\* exact result lies outside 0 .. 65535; reg_b and every other register are
\* unchanged.
C15_ArithBL ==
    (Executed /\ instruction.kind \in {"AddBL", "SubBL", "MulBL"}) =>
        LET u == IF pre.reg_b < 0 THEN pre.reg_b + 65536 ELSE pre.reg_b
            exact == ExactBL(instruction.kind, pre.reg_L, u)
        IN  /\ fault = "none"
            /\ machine.reg_L = exact.residue
            /\ exact.outside => machine.flag
            /\ [machine EXCEPT !.reg_L = 0, !.flag = FALSE] =
               [pre EXCEPT !.reg_L = 0, !.flag = FALSE]

\* AddBL with reg_L = 65535 and reg_b = 2: reg_L wraps to 1 and the flag is set
C15_Witness ==
    /\ Executed
    /\ instruction.kind = "AddBL"
    /\ pre.reg_L = 65535
    /\ pre.reg_b = 2
    /\ ~pre.flag
    /\ machine.reg_L = 1
    /\ machine.flag

\* C16: DivBL with reg_b = 0 does not abort the program: the step completes
\* with a defined reg_L and execution goes on; with reg_b # 0 it sets reg_L to
\* the integer quotient of reg_L by reg_b read as an unsigned 16-bit number.
C16_DivBL ==
    (Executed /\ instruction.kind = "DivBL") =>
        LET u == IF pre.reg_b < 0 THEN pre.reg_b + 65536 ELSE pre.reg_b
        IN  /\ fault = "none"
            /\ pc = "loop"
            /\ machine.reg_L \in 0 .. 65535
            /\ pre.reg_b # 0 => machine.reg_L = pre.reg_L \div u

\* C17: reg_Omega.is_sentient is one-way.  OmegaSetSentience(true) sets it;
\* no instruction takes it away once it is true; OmegaSetSentience(false)
\* executed while it is true leaves it true and sets the flag.
C17_SentienceOneWay ==
    Executed =>
        /\ pre.reg_Omega.is_sentient => machine.reg_Omega.is_sentient
        /\ instruction.kind = "OmegaSetSentience" =>
              /\ fault = "none"
              /\ instruction.ops[1] # 0 => machine.reg_Omega.is_sentient
              /\ (instruction.ops[1] = 0 /\ pre.reg_Omega.is_sentient) =>
                    /\ machine.reg_Omega.is_sentient
                    /\ machine.flag

\* OmegaSetSentience(false) refused by a sentient machine
C17_Witness ==
    /\ Executed
    /\ instruction = Ins("OmegaSetSentience", <<0>>)
    /\ pre.reg_Omega.is_sentient
    /\ ~pre.flag
    /\ machine.reg_Omega.is_sentient
    /\ machine.flag

\* a u64 given by its bytes as three limbs of 16, 24 and 24 bits, the most
\* significant first
Limbs(bytes) ==
    <<bytes[1] * 256 + bytes[2],
      bytes[3] * 65536 + bytes[4] * 256 + bytes[5],
      bytes[6] * 65536 + bytes[7] * 256 + bytes[8]>>

\* min(x + n, 2^64 - 1) on limbs, for n below 2^24
LimbsPlus(x, n) ==
    LET lo == x[3] + n
        mid == x[2] + lo \div 16777216
        hi == x[1] + mid \div 16777216
    IN  IF hi > 65535 THEN <<65535, 16777216 - 1, 16777216 - 1>>
        ELSE <<hi, mid % 16777216, lo % 16777216>>

\* max(x - n, 0) on limbs, for n below 2^24
LimbsMinus(x, n) ==
    IF x[3] >= n THEN <<x[1], x[2], x[3] - n>>
    ELSE IF x[2] > 0 THEN <<x[1], x[2] - 1, x[3] - n + 16777216>>
    ELSE IF x[1] > 0 THEN <<x[1] - 1, 16777216 - 1, x[3] - n + 16777216>>
    ELSE <<0, 0, 0>>

\* C18: polymorphic_desires saturates.  OmegaGainAPolymorphicDesires sets it
\* to min(old + reg_a, 2^64 - 1) and OmegaLoseAPolymorphicDesires to
\* max(old - reg_a, 0); the value never wraps around, and neither instruction
\* changes the flag (or anything else).
C18_DesiresSaturate ==
    (Executed /\ instruction.kind \in {"OmegaGainAPolymorphicDesires",
                                       "OmegaLoseAPolymorphicDesires"}) =>
        LET old == pre.reg_Omega.polymorphic_desires
            new == machine.reg_Omega.polymorphic_desires
        IN  /\ fault = "none"
            /\ new \in [1 .. 8 -> 0 .. 255]
            /\ Limbs(new) = IF instruction.kind = "OmegaGainAPolymorphicDesires"
                            THEN LimbsPlus(Limbs(old), pre.reg_a)
                            ELSE LimbsMinus(Limbs(old), pre.reg_a)
            /\ machine = [pre EXCEPT !.reg_Omega.polymorphic_desires = new]

\* a gain of 255 on 2^64 - 2 stops at 2^64 - 1
C18_Witness ==
    /\ Executed
    /\ instruction.kind = "OmegaGainAPolymorphicDesires"
    /\ pre.reg_Omega.polymorphic_desires = <<255, 255, 255, 255, 255, 255, 255, 254>>
    /\ pre.reg_a = 255
    /\ machine.reg_Omega.polymorphic_desires = U64Max

\* the bytes written to stdout by these events, in order
RECURSIVE OutputBytes(_)
OutputBytes(events) ==
    IF events = <<>> THEN <<>>
    ELSE (IF Head(events).chan = "stdout" THEN Head(events).bytes ELSE <<>>)
         \o OutputBytes(Tail(events))

\* the example running, or loaded and about to run
Running(name) == call.op \in {"load", "run"} /\ call.args = <<name>>

\* the hello-world program has halted with reg_a = 0, having written
\* "Hello, world!\n" and nothing else
HelloDone ==
    /\ machine.halted
    /\ machine.reg_a = 0
    /\ fault = "none"
    /\ OutputBytes(io) = SubSeq(HelloText, 1, Len(HelloText) - 1)

\* C19: the hello-world program, loaded at offset 0 into a default machine
\* and run, eventually reaches halted = true with reg_a = 0, and the output
\* emitted up to that point is exactly the text "Hello, world!\n".
C19_HelloWorld ==
    /\ [](Running("helloworld") /\ machine.halted => HelloDone)
    /\ (Running("helloworld") ~> machine.halted)

\* run has returned 0 from the hello-world program
C19_Witness ==
    /\ Running("helloworld")
    /\ pc = "returned"
    /\ call.ret = 0
    /\ HelloDone

\* the 99-bottles program: the instruction at this address has been
\* fetched and waits to be executed
BottlesAt(address) ==
    /\ Running("99_bottles_of_beer")
    /\ pc = "execute"
    /\ pre.reg_ep = address

\* The loop body at 29 is entered for the k-th time with reg_L = 100 - k, for
\* k = 1 .. 99 and no further time.  `steps` counts the instructions run has
\* executed: 15 come before the loop and 22 make one turn of it, so that the
\* k-th entry is the one at steps = 15 + 22 * (k - 1), and the entries come
\* in the order of k.
BottlesEntriesInOrder ==
    BottlesAt(29) =>
        \E k \in 1 .. 99 :
            /\ steps = 15 + 22 * (k - 1)
            /\ machine.reg_L = 100 - k

\* the Zpopep at 47 jumps to 71 exactly when reg_L = 1, and nothing else
\* leads to 71
BottlesExitAtOne ==
    /\ (Running("99_bottles_of_beer") /\ Executed /\ instruction.kind = "Zpopep") =>
            /\ machine.reg_L = 1 => machine.reg_ep = 71
            /\ machine.reg_L # 1 => machine.reg_ep = 48
    /\ BottlesAt(71) => machine.reg_L = 1 /\ steps = 15 + 22 * 98 + 9

\* once PopL, the sixth instruction, has set the counter, reg_L is at least 1
BottlesCounterPositive ==
    (Running("99_bottles_of_beer") /\ call.op = "run" /\ steps >= 6) =>
        machine.reg_L >= 1

\* C20: in the 99-bottles program the loop body at address 29 is entered
\* with reg_L = 99, 98, .., 1 in that order, each value exactly once; the
\* jump out of the loop (to address 71) is taken exactly when reg_L = 1 and
\* never earlier; reg_L never drops below 1; and the machine then halts.
C20_Bottles ==
    /\ [](BottlesEntriesInOrder /\ BottlesExitAtOne /\ BottlesCounterPositive)
    /\ [](Running("99_bottles_of_beer") => fault = "none")
    /\ (Running("99_bottles_of_beer") ~> machine.halted)

\* run has returned from the 99-bottles program, the counter at 1
C20_Witness ==
    /\ Running("99_bottles_of_beer")
    /\ pc = "returned"
    /\ machine.halted
    /\ machine.reg_L = 1
    /\ steps = 15 + 22 * 98 + 9 + 17

-----------------------------------------------------------------------------
(* Properties of load (SpecLoad).                                          *)

\* the bytes of an instruction: its opcode and its operands, read back from
\* a memory it was loaded into at 0
Encoding(x) ==
    LET r == load_instruction(DefaultMachine(FALSE), x, 0)
    IN  [k \in 1 .. EncodedSize(x.kind) |-> mem_get(r.machine.memory, k - 1)]

\* the bytes of the items of a sequence, one item after another
ItemBytes(item) ==
    IF item.type = "Instruction" THEN Encoding(item.instruction) ELSE item.bytes

RECURSIVE AllItemBytes(_)
AllItemBytes(data) ==
    IF data = <<>> THEN <<>> ELSE ItemBytes(Head(data)) \o AllItemBytes(Tail(data))

\* C21: load(items, o), for every item sequence and every start offset o,
\* returns without a panic, has written the bytes of the items one after
\* another from o on (wrapping at 65536) and nothing else, and returns
\* (o + the number of bytes of all items) mod 65536.
C21_LoadSequential ==
    (call.op = "load" /\ steps > 0)
    => LET data == call.args[1]
           o == call.args[2]
           bytes == AllItemBytes(data)
           written == {(o + k - 1) % U16Range : k \in 1 .. Len(bytes)}
       IN  /\ fault = "none"
           /\ call.ret = (o + Len(bytes)) % U16Range
           /\ \A k \in 1 .. Len(bytes) :
                mem_get(machine.memory, (o + k - 1) % U16Range) = bytes[k]
           /\ \A a \in (DOMAIN machine.memory \cup DOMAIN pre.memory) \ written :
                mem_get(machine.memory, a) = mem_get(pre.memory, a)

-----------------------------------------------------------------------------
(* Properties of the allow-list (SpecPrimes).                              *)

\* the Fibonacci numbers from b on that a u16 holds, a the one before b
RECURSIVE FibonacciFrom(_, _)
FibonacciFrom(a, b) ==
    IF b >= U16Range THEN {} ELSE {b} \cup FibonacciFrom(b, a + b)

IsFibonacci(n) == n \in {0} \cup FibonacciFrom(0, 1)

\* n has no divisor d with 1 < d and d * d <= n
IsPrime(n) == n >= 2 /\ \A d \in 2 .. 255 : d * d <= n => n % d # 0

\* n is the product of two primes
IsSemiprime(n) ==
    \E p \in 2 .. 255 : p * p <= n /\ n % p = 0 /\ IsPrime(p) /\ IsPrime(n \div p)

\* C22: for every n in 0..65535, is_fib_prime_or_semiprime_u16(n) is true
\* if and only if n is a Fibonacci number and n is a prime or a semiprime.
C22_AllowList ==
    call.op = "is_fib_prime_or_semiprime_u16"
    => LET n == call.args[1]
       IN  call.ret <=> (IsFibonacci(n) /\ (IsPrime(n) \/ IsSemiprime(n)))

-----------------------------------------------------------------------------
(* Properties of the input instructions and of the choice byte (Spec).     *)

\* C23: GetChar is gated by the dot pointer like every other I/O
\* instruction: executed where memory[reg_dp] is not '.', it reads no
\* input, leaves reg_ch unchanged and sets flag to true.
C23_GetCharGated ==
    (Executed /\ instruction.kind = "GetChar"
        /\ mem_get(pre.memory, pre.reg_dp) # Dot) =>
        /\ emitted = <<>>
        /\ machine.reg_ch = pre.reg_ch
        /\ machine.flag

\* C24: decoding the opcode of OmegaChoiceSet followed by a byte that is
\* none of the five representations of a choice is rejected:
\* fetch_instruction yields no instruction, and
\* reg_Omega.illusion_of_choice holds one of the five values in every
\* reachable state.
C24_ChoiceByteRejected ==
    /\ (Fetched
          /\ InBounds(pre.reg_ep) /\ InBounds(pre.reg_ep + 1)
          /\ from_repr(mem_get(pre.memory, pre.reg_ep)) = "OmegaChoiceSet"
          /\ ~ValidChoiceByte(mem_get(pre.memory, pre.reg_ep + 1)))
       => instruction = None
    /\ machine.reg_Omega.illusion_of_choice \in ChoiceValues

-----------------------------------------------------------------------------
(* Properties of run and of the exit status (Spec).                        *)

-----------------------------------------------------------------------------
(* Properties of the string register (SpecString).                         *)

\* the call the host has just made on the string register
StringCalled(op) == call.op = op /\ steps > 0

\* C26: reg_ss never holds more than 255 bytes; push_byte on a full
\* register and push_bytes of more bytes than the free space return
\* Overflow and leave the register as it was; set(i, v) with i >= len
\* returns Overflow and changes nothing, and Setss and Setiss then set the
\* flag.
C26_StringBounded ==
    /\ Len(machine.reg_ss.vec) <= 255
    /\ (StringCalled("push_byte") /\ Len(pre.reg_ss.vec) = 255)
       => /\ call.ret = FALSE
          /\ machine = pre
    /\ (StringCalled("push_bytes")
          /\ Len(call.args[1]) > 255 - Len(pre.reg_ss.vec))
       => /\ call.ret = FALSE
          /\ machine = pre
    /\ (StringCalled("set") /\ call.args[1] >= Len(pre.reg_ss.vec))
       => /\ call.ret = FALSE
          /\ machine = pre
    /\ (StringCalled("execute_instruction")
          /\ \/ instruction.kind = "Setss" /\ InBounds(instruction.ops[1])
             \/ instruction.kind = "Setiss"
          /\ instruction.ops[2] >= Len(pre.reg_ss.vec))
       => /\ fault = "none"
          /\ machine = [pre EXCEPT !.flag = TRUE]

\* push_bytes was refused on a register that holds "hi", with bytes of
\* which some would have fit
C26_Witness ==
    /\ StringCalled("push_bytes")
    /\ call.ret = FALSE
    /\ pre.reg_ss.vec = <<104, 105>>
    /\ Len(call.args[1]) = 254
    /\ machine.reg_ss.vec = <<104, 105>>

-----------------------------------------------------------------------------
(* Properties of the instructions on the string register and on reg_rh     *)
(* (SpecExecute).                                                          *)

\* C27: Pushss and Popss are all-or-nothing: when the transfer fails
\* because the source is empty or the destination is full, the flag is set
\* and both the stack and reg_ss hold exactly the bytes they held before
\* the instruction.
C27_TransferAllOrNothing ==
    /\ (Executed /\ instruction.kind = "Pushss"
          /\ (pre.stack.vec = <<>> \/ Len(pre.reg_ss.vec) = 255))
       => /\ machine.flag
          /\ machine.stack.vec = pre.stack.vec
          /\ machine.reg_ss.vec = pre.reg_ss.vec
    /\ (Executed /\ instruction.kind = "Popss"
          /\ (pre.reg_ss.vec = <<>> \/ Len(pre.stack.vec) = StackCapacity))
       => /\ machine.flag
          /\ machine.stack.vec = pre.stack.vec
          /\ machine.reg_ss.vec = pre.reg_ss.vec

\* C28: Movass(i) moves a value from reg_ss to register A: for
\* i < reg_ss.len() it sets reg_a to the byte reg_ss[i] and leaves reg_ss
\* unchanged.
C28_MovassReadsString ==
    (Executed /\ instruction.kind = "Movass"
        /\ instruction.ops[1] < Len(pre.reg_ss.vec))
    => /\ machine.reg_a = pre.reg_ss.vec[instruction.ops[1] + 1]
       /\ machine.reg_ss = pre.reg_ss

\* C29: Setrh(i, addr) sets a value in reg_rh: for i < 37 it sets
\* reg_rh[i] to the byte memory[addr], read as a signed byte, and leaves
\* the memory unchanged.
C29_SetrhReadsMemory ==
    (Executed /\ instruction.kind = "Setrh" /\ instruction.ops[1] < RhLen
        /\ InBounds(instruction.ops[2]))
    => /\ machine.reg_rh[instruction.ops[1] + 1]
             = u8_to_i8(mem_get(pre.memory, instruction.ops[2]))
       /\ machine.memory = pre.memory

\* C30: GetLine executed with memory[reg_dp] = '.' reads a line of input
\* and puts it in reg_ss: after the step reg_ss holds the bytes of the line
\* that was read (with or without the newline that ends it).  A read that
\* fails sets the flag; the flag still clear tells that the read succeeded.
C30_GetLineFillsString ==
    (Executed /\ instruction.kind = "GetLine"
        /\ mem_get(pre.memory, pre.reg_dp) = Dot
        /\ fault = "none" /\ emitted # <<>> /\ ~machine.flag)
    => LET line == emitted[1].bytes
       IN  \/ machine.reg_ss.vec = line
           \/ /\ line # <<>>
              /\ line[Len(line)] = 10
              /\ machine.reg_ss.vec = SubSeq(line, 1, Len(line) - 1)

-----------------------------------------------------------------------------
(* Properties of single instructions (SpecExecute), continued.             *)

\* C31: popping an empty stack yields no value and mutates nothing: pop_byte
\* on an empty stack returns None and leaves the stack as it was, and Pop(addr)
\* and Popa executed on an empty stack complete, set the flag and leave
\* memory[addr], reg_a and everything else at their previous values.
C31_PopEmpty ==
    (Executed /\ instruction.kind \in {"Pop", "Popa"} /\ pre.stack.vec = <<>>) =>
        /\ LET r == pop_byte(pre.stack)
           IN  ~r.some /\ r.stack = pre.stack
        /\ fault = "none"
        /\ machine.stack.vec = <<>>
        /\ machine = [pre EXCEPT !.flag = TRUE]

\* Pop(2) has been executed on an empty stack with the flag clear, the byte
\* 200 at address 2 and reg_a = 3
C31_Witness ==
    /\ Executed
    /\ instruction = Ins("Pop", <<2>>)
    /\ pre.stack.vec = <<>>
    /\ ~pre.flag
    /\ machine.flag
    /\ mem_get(pre.memory, 2) = 200
    /\ mem_get(machine.memory, 2) = 200
    /\ machine.reg_a = 3

\* C32: ModBL sets reg_L to reg_L mod u, u being reg_b read as an unsigned
\* 16-bit number, and to 0 when reg_b = 0; it never aborts, and it changes
\* neither the flag nor anything else.
C32_ModBL ==
    (Executed /\ instruction.kind = "ModBL") =>
        LET u == IF pre.reg_b < 0 THEN pre.reg_b + 65536 ELSE pre.reg_b
            rem == IF u = 0 THEN 0 ELSE pre.reg_L - u * (pre.reg_L \div u)
        IN  /\ fault = "none"
            /\ pc = "loop"
            /\ machine.flag = pre.flag
            /\ machine = [pre EXCEPT !.reg_L = rem]

\* ModBL with reg_L = 65535 and reg_b = 0, the flag set: reg_L is 0 afterwards
\* and the flag still set
C32_Witness ==
    /\ Executed
    /\ instruction.kind = "ModBL"
    /\ pre.reg_L = 65535
    /\ pre.reg_b = 0
    /\ pre.flag
    /\ machine.reg_L = 0
    /\ machine.flag

\* bit k of a 16-bit value
BitOf(x, k) == (x \div (2 ^ k)) % 2

\* what a bitwise instruction makes of one bit of reg_L and one bit of u
BitwiseBit(kind, l, u) ==
    CASE kind = "NotL" -> 1 - l
      [] kind = "AndBL" -> IF l = 1 /\ u = 1 THEN 1 ELSE 0
      [] kind = "OrBL" -> IF l = 1 \/ u = 1 THEN 1 ELSE 0
      [] kind = "XorBL" -> IF l # u THEN 1 ELSE 0

\* C33: NotL, AndBL, OrBL and XorBL change only reg_L, to the bitwise result
\* over 16 bits with reg_b taken as its unsigned bit pattern: the flag, reg_b,
\* the stack, the memory and everything else are unchanged, whatever the
\* operands, and the step completes.
C33_BitwiseFrame ==
    (Executed /\ instruction.kind \in {"NotL", "AndBL", "OrBL", "XorBL"}) =>
        LET u == IF pre.reg_b < 0 THEN pre.reg_b + 65536 ELSE pre.reg_b
        IN  /\ fault = "none"
            /\ machine.reg_L \in 0 .. 65535
            /\ \A k \in 0 .. 15 :
                  BitOf(machine.reg_L, k) =
                  BitwiseBit(instruction.kind, BitOf(pre.reg_L, k), BitOf(u, k))
            /\ machine.flag = pre.flag
            /\ machine.reg_b = pre.reg_b
            /\ machine.stack = pre.stack
            /\ machine.memory = pre.memory
            /\ [machine EXCEPT !.reg_L = 0] = [pre EXCEPT !.reg_L = 0]

\* XorBL with reg_L = 65535 and reg_b = -32767 (the bit pattern 0x8001), the
\* flag set: reg_L is 0x7FFE afterwards and the flag still set
C33_Witness ==
    /\ Executed
    /\ instruction.kind = "XorBL"
    /\ pre.reg_L = 65535
    /\ pre.reg_b = -32767
    /\ pre.flag
    /\ machine.reg_L = 32766
    /\ machine.flag
    /\ machine.reg_b = -32767

-----------------------------------------------------------------------------
(* Properties of the stack (SpecStack), continued.                         *)

\* the multi-byte pops and the number of bytes each takes
PopHelperWidth == [pop_u16 |-> 2, pop_u32 |-> 4, pop_u64 |-> 8]

\* a multi-byte pop has returned Some(value)
PoppedValue ==
    /\ call.op \in {"pop_u16", "pop_u32", "pop_u64"}
    /\ call.ret.some

\* the bytes the pop took off the stack, in the order it popped them: the
\* top of the stack first
PoppedInOrder ==
    LET n == PopHelperWidth[call.op]
        len == Len(pre.stack.vec)
    IN  [k \in 1 .. n |-> pre.stack.vec[len + 1 - k]]

\* C34 as stated: pop_u16, pop_u32 and pop_u64 pop most-significant-first: the
\* first byte popped (the top of the stack) is the most significant byte of
\* the returned big-endian value and the last byte popped the least
\* significant.
C34_PopMostSignificantFirst ==
    PoppedValue =>
        /\ Len(call.ret.val) = PopHelperWidth[call.op]
        /\ \A k \in 1 .. PopHelperWidth[call.op] : call.ret.val[k] = PoppedInOrder[k]

\* C34 amended: pop_u16, pop_u32 and pop_u64 pop least-significant-first: the
\* first byte popped (the top of the stack) is the least significant byte of
\* the returned big-endian value and the last byte popped the most
\* significant, so that the value is the top 2, 4 or 8 bytes of the stack read
\* from the deepest to the top; the pop removes exactly these bytes.
C34_PopLeastSignificantFirst ==
    PoppedValue =>
        LET n == PopHelperWidth[call.op]
            len == Len(pre.stack.vec)
        IN  /\ Len(call.ret.val) = n
            /\ \A k \in 1 .. n : call.ret.val[n + 1 - k] = PoppedInOrder[k]
            /\ call.ret.val = SubSeq(pre.stack.vec, len - n + 1, len)
            /\ machine.stack.vec = SubSeq(pre.stack.vec, 1, len - n)

\* pop_u64 has returned the value 0x0102 from a stack with the byte 2 on top
\* of the byte 1
C34_Witness ==
    /\ PoppedValue
    /\ call.op = "pop_u64"
    /\ PoppedInOrder = <<2, 1, 0, 0, 0, 0, 0, 0>>
    /\ call.ret.val = <<0, 0, 0, 0, 0, 0, 1, 2>>

-----------------------------------------------------------------------------
(* Properties of single instructions (SpecExecute), continued.             *)

\* u8::rotate_left(1): bit 7 moves to bit 0
RotateLeft1(b) == ((2 * b) % 256) + (b \div 128)

\* C35: Ldar(addr), with addr inside the memory, sets reg_a to memory[addr]
\* rotated left by one bit (bit 7 moving to bit 0).
C35_LdarRotates ==
    (Executed /\ instruction.kind = "Ldar" /\ InBounds(instruction.ops[1])) =>
        /\ fault = "none"
        /\ machine.reg_a = RotateLeft1(mem_get(pre.memory, instruction.ops[1]))

\* C36: WriteChar executed with memory[reg_dp] = '.', the paperclip toggle
\* off, a character in reg_ch and a write that succeeds emits exactly the
\* 1 to 4 bytes of the UTF-8 encoding of reg_ch and no other byte.
C36_WriteCharEmitsChar ==
    (/\ Executed
     /\ instruction.kind = "WriteChar"
     /\ dot_index_ok(pre) /\ mem_get(pre.memory, pre.reg_dp) = Dot
     /\ ~pre.reg_Omega.should_make_infinite_paperclips
     /\ IsChar(pre.reg_ch)
     /\ ~machine.flag) =>
        /\ fault = "none"
        /\ OutputBytes(emitted) = encode_utf8(CodeOf(pre.reg_ch))

-----------------------------------------------------------------------------
(* Properties of the instruction codec (SpecCodec), continued.             *)

\* C37: decoding and encoding are inverses in the other direction as well:
\* whenever fetch_instruction decodes the bytes at offset o into an
\* instruction x consuming n bytes, load_instruction(x, o) completes, writes
\* back exactly those n bytes (the memory is what it was) and returns o + n,
\* so that no two byte sequences decode to the same instruction.
C37_DecodeEncode ==
    call.op = "load_instruction back" =>
        /\ fault = "none"
        /\ machine.memory = pre.memory
        /\ call.ret = pre.reg_ep

-----------------------------------------------------------------------------
(* Properties of a run (Spec), continued.                                  *)

\* C38: with memory[reg_dp] = '.', DebugMemoryRegion(a, b) and
\* DebugStackRegion(a, b) dump an arbitrary range: for every pair of 16-bit
\* operands, a > b and stack ranges beyond the bytes on the stack included,
\* the step completes without aborting the machine and the run loop goes on.
C38_DebugRegionsNeverAbort ==
    (/\ Executed
     /\ instruction.kind \in {"DebugMemoryRegion", "DebugStackRegion"}
     /\ dot_index_ok(pre)
     /\ mem_get(pre.memory, pre.reg_dp) = Dot) =>
        /\ fault = "none"
        /\ pc = "loop"

-----------------------------------------------------------------------------
(* A register saved on the stack and restored: the host executes a push,   *)
(* assigns the register (the fields of the machine are public) and         *)
(* executes the matching pop; or it executes Pushi, Pushi and PopL.        *)

\* how many times the host assigns the register between push and pop
MaxChanges == 2

\* the pop that matches each register push
MatchingPop ==
    [Pushb |-> "Popb", PushL |-> "PopL", Pushnum |-> "Popnum", Pushch |-> "Popch",
     Pushf |-> "Popf"]

\* the register a push saves
PushedRegister(m, kind) ==
    CASE kind = "Pushb" -> m.reg_b
      [] kind = "PushL" -> m.reg_L
      [] kind = "Pushnum" -> m.num_reg
      [] kind = "Pushch" -> m.reg_ch
      [] kind = "Pushf" -> m.reg_f

\* the machine with that register assigned
WithRegister(m, kind, v) ==
    CASE kind = "Pushb" -> [m EXCEPT !.reg_b = v]
      [] kind = "PushL" -> [m EXCEPT !.reg_L = v]
      [] kind = "Pushnum" -> [m EXCEPT !.num_reg = v]
      [] kind = "Pushch" -> [m EXCEPT !.reg_ch = v]
      [] kind = "Pushf" -> [m EXCEPT !.reg_f = v]

\* values the host assigns
RegisterSamples(kind) ==
    CASE kind = "Pushb" -> {0, -1}
      [] kind = "PushL" -> {0, 513}
      [] kind = "Pushnum" -> {0, 67305985}
      [] kind = "Pushch" -> {CharOf(0), CharOf(66)}
      [] kind = "Pushf" -> {U64Zero, <<8, 7, 6, 5, 4, 3, 2, 1>>}

\* machines to start from: registers whose bytes differ from one another or
\* have the sign bit set; the stack empty, of one byte, with room for exactly
\* 8 bytes and with room for 1
RoundTripMachines ==
    {[DefaultMachine(FALSE) EXCEPT !.reg_b = p.b, !.reg_L = p.L, !.num_reg = p.num,
                                   !.reg_ch = p.ch, !.reg_f = p.f,
                                   !.stack = st, !.flag = f] :
        p \in {[b |-> 258, L |-> 258, num |-> 16909060, ch |-> CharOf(65),
                f |-> <<1, 2, 3, 4, 5, 6, 7, 8>>],
               [b |-> -32768, L |-> 65280, num |-> -2, ch |-> CharOf(128512),
                f |-> <<255, 240, 0, 0, 0, 0, 0, 1>>]},
        st \in {StackOf(<<>>), StackOf(<<7>>),
                StackOf([k \in 1 .. StackCapacity - 8 |-> 0]),
                StackOf([k \in 1 .. StackCapacity - 1 |-> 0])},
        f \in BOOLEAN}

InitRoundTrip ==
    /\ machine \in RoundTripMachines
    /\ pre = machine
    /\ pc = "new"
    /\ instruction = None
    /\ io = <<>>
    /\ emitted = <<>>
    /\ fault = "none"
    /\ call = NoCall
    /\ steps = 0

\* execute_instruction(x) called by the host, the sequence of calls so far
\* kept in call: its op names the sequence, args[1] is the machine before
\* the first call
RoundTripExecute(x, op, args, next) ==
    LET r == execute_instruction(machine, x, NdDefault)
    IN  /\ machine' = r.machine
        /\ instruction' = x
        /\ io' = io \o r.out
        /\ emitted' = r.out
        /\ fault' = r.fault
        /\ pc' = IF r.fault = "none" THEN next ELSE "aborted"
        /\ call' = [op |-> op, args |-> args, ret |-> <<>>]
        /\ pre' = machine
        /\ UNCHANGED steps

\* the push of a register
RoundTripPush ==
    /\ pc = "new"
    /\ \E kind \in DOMAIN MatchingPop :
         RoundTripExecute(Ins(kind, <<>>), kind, <<machine>>, "pushed")

\* the host assigns the register that was pushed
RoundTripChange ==
    /\ pc = "pushed"
    /\ steps < MaxChanges
    /\ \E v \in RegisterSamples(call.op) :
         machine' = WithRegister(machine, call.op, v)
    /\ pre' = machine
    /\ steps' = steps + 1
    /\ UNCHANGED <<pc, instruction, io, emitted, fault, call>>

\* the matching pop
RoundTripPop ==
    /\ pc = "pushed"
    /\ RoundTripExecute(Ins(MatchingPop[call.op], <<>>), call.op, call.args, "popped")

\* Pushi hi, and then Pushi lo
RoundTripPushi ==
    /\ pc \in {"new", "pushed hi"}
    /\ \E v \in U8Samples :
         RoundTripExecute(Ins("Pushi", <<v>>), "Pushi",
                          IF pc = "new" THEN <<machine, v>> ELSE Append(call.args, v),
                          IF pc = "new" THEN "pushed hi" ELSE "pushed lo")

\* PopL after the two Pushi
RoundTripPopL ==
    /\ pc = "pushed lo"
    /\ RoundTripExecute(Ins("PopL", <<>>), "Pushi", call.args, "popped")

NextRoundTrip ==
    \/ RoundTripPush
    \/ RoundTripChange
    \/ RoundTripPop
    \/ RoundTripPushi
    \/ RoundTripPopL

SpecRoundTrip == InitRoundTrip /\ [][NextRoundTrip]_vars

-----------------------------------------------------------------------------
(* examples/truth_machine.rs, loaded at offset 0 into a default machine    *)
(* and run.  The run need not end, so neither the output so far nor the    *)
(* number of instructions executed is kept: `steps` counts the WriteChar   *)
(* instructions executed, up to MaxWritesCounted.                          *)

\* the count of executed WriteChar instructions stops here
MaxWritesCounted == 3

\* the instructions of the assembly (its prefixes are not checked and do not
\* place anything: Ldidp lies at 5, the first WriteChar at 28,
\* OmegaSkipToTheChase at 30 and the second WriteChar at 31)
TruthInstructions ==
    <<Ins("Pushi", <<Dot>>),
      Ins("Pop", <<28657>>),
      Ins("Ldidp", <<28657>>),
      Ins("GetChar", <<>>),
      Ins("Pushch", <<>>),
      Ins("Popb", <<>>),
      Ins("StackDealloc", <<2>>),
      Ins("Pushi", <<0>>),
      Ins("Pushi", <<49>>),
      Ins("PopL", <<>>),
      Ins("CmpLB", <<>>),
      Ins("Pushi", <<0>>),
      Ins("Pushi", <<30>>),
      Ins("Zpopep", <<>>),
      Ins("StackDealloc", <<2>>),
      Ins("WriteChar", <<>>),
      Ins("OmegaTheEndIsNear", <<>>),
      Ins("OmegaSkipToTheChase", <<>>),
      Ins("WriteChar", <<>>),
      Ins("Pushi", <<0>>),
      Ins("Pushi", <<30>>),
      Ins("Popep", <<>>)>>

\* machine.load(&asm, 0)
TruthLoad ==
    /\ pc = "new"
    /\ call.op = "new"
    /\ LET r == load(machine, Program(TruthInstructions), 0)
       IN  /\ machine' = r.machine
           /\ fault' = r.fault
           /\ pc' = IF r.fault = "none" THEN "new" ELSE "aborted"
           /\ call' = [op |-> "load", args |-> <<"truth_machine">>, ret |-> r.offset]
    /\ pre' = machine
    /\ UNCHANGED <<instruction, io, emitted, steps>>

\* run: execute_instruction of the instruction fetched
TruthExecute ==
    /\ pc = "execute"
    /\ \E nd \in NdChoices(instruction.kind) :
         LET r == execute_instruction(machine, instruction, nd)
         IN  /\ machine' = r.machine
             /\ emitted' = r.out
             /\ fault' = r.fault
             /\ pc' = IF r.fault = "none" THEN "loop" ELSE "aborted"
    /\ pre' = machine
    /\ steps' = IF instruction.kind = "WriteChar" /\ steps < MaxWritesCounted
                THEN steps + 1 ELSE steps
    /\ UNCHANGED <<instruction, io, call>>

NextTruth ==
    \/ TruthLoad
    \/ ExampleRun
    \/ ExampleFetch
    \/ TruthExecute
    \/ RunReturn

\* main is sequential code, as in SpecExamples
SpecTruth == InitExamples /\ [][NextTruth]_vars /\ WF_pc(Advance)

\* GetChar has delivered this character to the truth machine
Delivered(code) == Running("truth_machine") /\ machine.reg_ch = CharOf(code)

\* a WriteChar has just been executed
WroteChar == pc = "loop" /\ instruction.kind = "WriteChar"

\* C40: the truth-machine program, loaded at offset 0 into a default machine
\* and run: if the character delivered by GetChar is '0', WriteChar is
\* executed exactly once and the machine then halts; if it is '1', the machine
\* executes WriteChar again and again forever, never reaches halted = true
\* and never aborts on an invalid opcode or otherwise.
C40_TruthMachine ==
    /\ [](Running("truth_machine") => fault = "none")
    /\ [](Delivered(48) => steps <= 1)
    /\ [](Delivered(48) /\ machine.halted => steps = 1)
    /\ (Delivered(48) ~> (machine.halted /\ pc = "returned"))
    /\ [](Delivered(49) => ~machine.halted)
    /\ (Delivered(49) ~> WroteChar)
    /\ (Delivered(49) /\ WroteChar ~> ~WroteChar)

\* the '1' has been written more often than the count goes, the machine not
\* halted and the stack empty
C40_Witness ==
    /\ Delivered(49)
    /\ WroteChar
    /\ steps = MaxWritesCounted
    /\ ~machine.halted
    /\ machine.stack.vec = <<>>
    /\ machine.reg_ep = 32

====
